---- MODULE Spec2Model ----
(***************************************************************************)
(* simplerouter: a tree of routers over net/http's ServeMux.               *)
(*                                                                         *)
(* Strings are sequences of one-character strings, so that the string      *)
(* functions of the code (TrimPrefix, IndexAny, ReplaceAll, ...) are       *)
(* computed character by character.  Positions are 1-based; an index of 0  *)
(* stands for Go's -1.                                                     *)
(***************************************************************************)
EXTENDS Integers, Sequences, FiniteSets

\* ------------------------------------------------------------------------
\* strings
\* ------------------------------------------------------------------------

HasPrefix(s, p) == Len(p) <= Len(s) /\ SubSeq(s, 1, Len(p)) = p

HasSuffix(s, p) == Len(p) <= Len(s) /\ SubSeq(s, Len(s) - Len(p) + 1, Len(s)) = p

TrimPrefix(s, p) == IF HasPrefix(s, p) THEN SubSeq(s, Len(p) + 1, Len(s)) ELSE s

TrimSuffix(s, p) == IF HasSuffix(s, p) THEN SubSeq(s, 1, Len(s) - Len(p)) ELSE s

\* strings.Contains for a one-character needle
Contains(s, c) == \E i \in 1..Len(s) : s[i] = c

\* strings.ReplaceAll for one-character old and new
ReplaceAll(s, old, new) == [i \in 1..Len(s) |-> IF s[i] = old THEN new ELSE s[i]]

\* strings.IndexAny: the first position holding one of chars, 0 when none
IndexAny(s, chars) ==
    IF \E i \in 1..Len(s) : s[i] \in chars
    THEN CHOOSE i \in 1..Len(s) : s[i] \in chars /\ \A j \in 1..(i - 1) : s[j] \notin chars
    ELSE 0

\* strings.TrimLeft: s without its leading run of chars
TrimLeft(s, chars) ==
    IF \A i \in 1..Len(s) : s[i] \in chars
    THEN <<>>
    ELSE LET k == CHOOSE i \in 1..Len(s) :
                     s[i] \notin chars /\ \A j \in 1..(i - 1) : s[j] \in chars
         IN  SubSeq(s, k, Len(s))

\* strings.Count for a one-character needle
RECURSIVE Count(_, _)
Count(s, c) ==
    IF s = <<>> THEN 0 ELSE (IF Head(s) = c THEN 1 ELSE 0) + Count(Tail(s), c)

Blank == {" ", "\t"}

\* In what follows, CHOOSE y \in {e : x \in {v}} : TRUE is e with x standing
\* for the value of v, which is computed once.

\* strings.Split at a one-character separator
RECURSIVE Split(_, _)
Split(s, c) ==
    CHOOSE y \in {IF i = 0 THEN <<x>>
                  ELSE <<SubSeq(x, 1, i - 1)>> \o Split(SubSeq(x, i + 1, Len(x)), c) :
                      x \in {s}, i \in {IndexAny(s, {c})}} : TRUE

\* the concatenation of the strings of a sequence
RECURSIVE Concat(_)
Concat(ss) ==
    CHOOSE y \in {IF x = <<>> THEN <<>> ELSE Head(x) \o Concat(Tail(x)) : x \in {ss}} : TRUE

\* ------------------------------------------------------------------------
\* characters.  A string holds the printable ASCII characters, the tab, a
\* few characters outside ASCII (each stands for the bytes of its UTF-8
\* encoding) and, for a byte that is none of these, the token "%XX".
\* ------------------------------------------------------------------------

Letters == {"a", "b", "c", "d", "e", "f", "g", "h", "i", "j", "k", "l", "m", "n", "o",
            "p", "q", "r", "s", "t", "u", "v", "w", "x", "y", "z",
            "A", "B", "C", "D", "E", "F", "G", "H", "I", "J", "K", "L", "M", "N", "O",
            "P", "Q", "R", "S", "T", "U", "V", "W", "X", "Y", "Z"}

Digits == {"0", "1", "2", "3", "4", "5", "6", "7", "8", "9"}

\* the characters 0x20 to 0x7E in their order; the backquote (0x60), which
\* a TLA+ string cannot hold, is written as the token "%60"
Ascii == <<" ", "!", "\"", "#", "$", "%", "&", "'", "(", ")", "*", "+", ",", "-", ".", "/",
           "0", "1", "2", "3", "4", "5", "6", "7", "8", "9",
           ":", ";", "<", "=", ">", "?", "@",
           "A", "B", "C", "D", "E", "F", "G", "H", "I", "J", "K", "L", "M", "N", "O",
           "P", "Q", "R", "S", "T", "U", "V", "W", "X", "Y", "Z",
           "[", "\\", "]", "^", "_", "%60",
           "a", "b", "c", "d", "e", "f", "g", "h", "i", "j", "k", "l", "m", "n", "o",
           "p", "q", "r", "s", "t", "u", "v", "w", "x", "y", "z",
           "{", "|", "}", "~">>

\* letters and digits outside ASCII (unicode.IsLetter, unicode.IsDigit), and
\* a character outside ASCII that is neither
OtherLetters == {"é", "λ"}

OtherDigits == {"১"}

NonAscii == OtherLetters \cup OtherDigits \cup {"€"}

\* the hexadecimal digits: those of an escape that is written, then the
\* lower-case ones an escape that is read may have too
Hex == <<"0", "1", "2", "3", "4", "5", "6", "7", "8", "9", "A", "B", "C", "D", "E", "F",
         "a", "b", "c", "d", "e", "f">>

ishex(c) == \E i \in 1..Len(Hex) : Hex[i] = c

\* the value of a hexadecimal digit
unhex(c) ==
    IF \E i \in 17..Len(Hex) : Hex[i] = c THEN (CHOOSE i \in 17..Len(Hex) : Hex[i] = c) - 7
    ELSE (CHOOSE i \in 1..16 : Hex[i] = c) - 1

\* the escape of the byte n
PctByte(n) == <<"%", Hex[(n \div 16) + 1], Hex[(n % 16) + 1]>>

\* the escapes of the UTF-8 bytes of a character outside ASCII
PctNonAscii(c) ==
    CASE c = "é" -> <<"%", "C", "3", "%", "A", "9">>
      [] c = "λ" -> <<"%", "C", "E", "%", "B", "B">>
      [] c = "১" -> <<"%", "E", "0", "%", "A", "7", "%", "A", "7">>
      [] OTHER   -> <<"%", "E", "2", "%", "8", "2", "%", "A", "C">>

\* the character of the byte n; a byte that is no character of the model
\* is the token "%XX"
byteChar(n) ==
    IF n >= 32 /\ n <= 126 THEN Ascii[n - 31]
    ELSE IF n = 9 THEN "\t"
    ELSE "%" \o Hex[(n \div 16) + 1] \o Hex[(n % 16) + 1]

\* the escape of character c: "%XX" for each of its bytes
pct(c) ==
    IF c \in NonAscii THEN PctNonAscii(c)
    ELSE PctByte(CHOOSE n \in 0..255 : byteChar(n) = c)

\* net/url's shouldEscape in the mode encodePath
shouldEscape(c) ==
    c \notin Letters \cup Digits
              \cup {"-", "_", ".", "~", "$", "&", "+", ",", "/", ":", ";", "=", "@"}

\* net/url's escape in the mode encodePath
RECURSIVE escape(_)
escape(s) ==
    CHOOSE y \in {IF x = <<>> THEN <<>>
                  ELSE (IF shouldEscape(Head(x)) THEN pct(Head(x)) ELSE <<Head(x)>>)
                           \o escape(Tail(x)) : x \in {s}} : TRUE

\* every "%" of s is followed by two hexadecimal digits
validEscapes(s) ==
    \A i \in 1..Len(s) :
        s[i] = "%" => i + 2 <= Len(s) /\ ishex(s[i + 1]) /\ ishex(s[i + 2])

\* s begins with the escapes of the character c outside ASCII
beginsWithPct(s, c) ==
    /\ Len(s) >= Len(PctNonAscii(c))
    /\ \A i \in 1..Len(PctNonAscii(c)) :
          IF PctNonAscii(c)[i] = "%" THEN s[i] = "%"
          ELSE ishex(s[i]) /\ unhex(s[i]) = unhex(PctNonAscii(c)[i])

\* net/url's unescape of a string whose escapes are valid
RECURSIVE unescaped(_)
unescaped(s) ==
    CHOOSE y \in
        {IF x = <<>> THEN <<>>
         ELSE IF Head(x) # "%" THEN <<Head(x)>> \o unescaped(Tail(x))
         ELSE IF \E c \in NonAscii : beginsWithPct(x, c)
         THEN LET c == CHOOSE d \in NonAscii : beginsWithPct(x, d)
              IN  <<c>> \o unescaped(SubSeq(x, Len(PctNonAscii(c)) + 1, Len(x)))
         ELSE <<byteChar(16 * unhex(x[2]) + unhex(x[3]))>> \o unescaped(SubSeq(x, 4, Len(x))) :
             x \in {s}} : TRUE

\* net/http's pathUnescape: url.PathUnescape, the string itself on an error
pathUnescape(s) == IF validEscapes(s) THEN unescaped(s) ELSE s

\* path.Clean of a rooted path: the components that stay.  Empty components
\* and "." go, ".." takes the component before it away
RECURSIVE cleanComponents(_, _)
cleanComponents(comps, kept) ==
    CHOOSE y \in
        {IF cs = <<>> THEN k
         ELSE IF Head(cs) \in {<<>>, <<".">>} THEN cleanComponents(Tail(cs), k)
         ELSE IF Head(cs) = <<".", ".">>
              THEN cleanComponents(Tail(cs), SubSeq(k, 1, Len(k) - 1))
         ELSE cleanComponents(Tail(cs), Append(k, Head(cs))) :
             cs \in {comps}, k \in {kept}} : TRUE

\* path.Clean of a path that begins with "/"
Clean(p) ==
    CHOOSE y \in {IF kept = <<>> THEN <<"/">>
                  ELSE Concat([i \in 1..Len(kept) |-> <<"/">> \o kept[i]]) :
                      kept \in {cleanComponents(Split(p, "/"), <<>>)}} : TRUE

\* net/http's cleanPath: the canonical path of p, with its trailing slash
cleanPath(p) ==
    IF p = <<>> THEN <<"/">>
    ELSE CHOOSE y \in {IF p[Len(p)] = "/" /\ np # <<"/">> THEN np \o <<"/">> ELSE np :
                           np \in {Clean(IF p[1] # "/" THEN <<"/">> \o p ELSE p)}} : TRUE

\* strings.LastIndex for a one-character needle, 0 when there is none
LastIndex(s, c) ==
    IF Contains(s, c) THEN CHOOSE i \in 1..Len(s) : s[i] = c /\ \A j \in (i + 1)..Len(s) : s[j] # c
    ELSE 0

\* ------------------------------------------------------------------------
\* bounds of the model
\* ------------------------------------------------------------------------

\* the number of calls that build the router tree (Use, Group, Route, the
\* registrations and the setters)
MaxOps == 4

\* ------------------------------------------------------------------------
\* net/http.ServeMux, the dispatcher every muxWrapper embeds.  The router
\* calls it at three places: ServeMux.Handle (registration), ServeMux.Handler
\* (resolution without serving) and ServeMux.ServeHTTP (resolve and serve).
\* What follows is the behaviour of those three calls for patterns of the
\* form [METHOD ][HOST]/[PATH] with literal segments, {name}, {name...} and
\* {$}, and for requests in origin form (a path and a query).
\* ------------------------------------------------------------------------

\* a wildcard name is a Go identifier: letters (unicode.IsLetter), "_" and,
\* after the first character, digits (unicode.IsDigit)
isValidWildcardName(name) ==
    /\ name # <<>>
    /\ \A i \in 1..Len(name) :
          \/ name[i] \in Letters \cup OtherLetters
          \/ name[i] = "_"
          \/ (i > 1 /\ name[i] \in Digits \cup OtherDigits)

\* a method is an HTTP token: letters, digits and the characters of
\* httpguts.IsTokenRune
validMethod(method) ==
    /\ method # <<>>
    /\ \A i \in 1..Len(method) :
          method[i] \in Letters \cup Digits
              \cup {"!", "#", "$", "%", "&", "'", "*", "+", "-", ".", "^", "_", "%60", "|", "~"}

Literal(s) == [s |-> s, wild |-> FALSE, multi |-> FALSE]

Wildcard(name, multi) == [s |-> name, wild |-> TRUE, multi |-> multi]

BadSegments == [ok |-> FALSE, segs |-> <<>>]

consSegment(sg, more) == [ok |-> more.ok, segs |-> <<sg>> \o more.segs]

\* The segments of a pattern's path; rest begins with "/".  seen holds the
\* wildcard names met so far.  A trailing slash is an anonymous multi
\* wildcard, {$} the literal segment "/".
RECURSIVE parseSegments(_, _)

\* the segment seg, a wildcard "{...}" whose inside is name (multi: it ended
\* with "..."), followed by rem
parseWildcard(name, multi, rem, seen) ==
    IF multi /\ rem # <<>> THEN BadSegments
    ELSE IF ~isValidWildcardName(name) THEN BadSegments
    ELSE IF name \in seen THEN BadSegments
    ELSE IF rem = <<>> THEN [ok |-> TRUE, segs |-> <<Wildcard(name, multi)>>]
    ELSE consSegment(Wildcard(name, multi), parseSegments(rem, seen \cup {name}))

\* the segment seg followed by rem
parseSegment(seg, rem, seen) ==
    IF ~Contains(seg, "{")
    THEN (IF rem = <<>> THEN [ok |-> TRUE, segs |-> <<Literal(pathUnescape(seg))>>]
          ELSE consSegment(Literal(pathUnescape(seg)), parseSegments(rem, seen)))
    ELSE IF seg[1] # "{" \/ seg[Len(seg)] # "}" THEN BadSegments
    ELSE IF seg = <<"{", "$", "}">>
         THEN (IF rem # <<>> THEN BadSegments
               ELSE [ok |-> TRUE, segs |-> <<Literal(<<"/">>)>>])
    ELSE parseWildcard(TrimSuffix(SubSeq(seg, 2, Len(seg) - 1), <<".", ".", ".">>),
                       HasSuffix(SubSeq(seg, 2, Len(seg) - 1), <<".", ".", ".">>),
                       rem, seen)

\* r1 is the path after its leading "/", i the position of its next "/"
parseSegmentsAt(r1, i, seen) ==
    IF r1 = <<>> THEN [ok |-> TRUE, segs |-> <<Wildcard(<<>>, TRUE)>>]
    ELSE IF i = 0 THEN parseSegment(r1, <<>>, seen)
    ELSE parseSegment(SubSeq(r1, 1, i - 1), SubSeq(r1, i, Len(r1)), seen)

parseSegments(rest, seen) == parseSegmentsAt(Tail(rest), IndexAny(Tail(rest), {"/"}), seen)

BadPattern == [ok |-> FALSE, method |-> <<>>, host |-> <<>>, segs |-> <<>>]

MethodCONNECT == <<"C", "O", "N", "N", "E", "C", "T">>

parsedPattern(method, host, ps) ==
    [ok |-> ps.ok, method |-> method, host |-> host, segs |-> ps.segs]

\* rest is the pattern after its method, j the position of its first "/"
parseHostPath(method, rest, j) ==
    IF method # <<>> /\ ~validMethod(method) THEN BadPattern
    ELSE IF j = 0 THEN BadPattern
    ELSE IF \E k \in 1..(j - 1) : rest[k] = "{" THEN BadPattern
    \* a pattern with a method and an unclean path can never match
    ELSE IF method # <<>> /\ method # MethodCONNECT
            /\ SubSeq(rest, j, Len(rest)) # cleanPath(SubSeq(rest, j, Len(rest)))
         THEN BadPattern
    ELSE parsedPattern(method, SubSeq(rest, 1, j - 1),
                       parseSegments(SubSeq(rest, j, Len(rest)), {}))

parseMethodRest(method, rest) == parseHostPath(method, rest, IndexAny(rest, {"/"}))

\* i is the position of the pattern's first space or tab
parsePatternAt(s, i) ==
    IF s = <<>> THEN BadPattern
    ELSE IF i = 0 THEN parseMethodRest(<<>>, s)
    ELSE parseMethodRest(SubSeq(s, 1, i - 1), TrimLeft(SubSeq(s, i + 1, Len(s)), Blank))

\* ServeMux's parse of a pattern: ok is FALSE where registration panics.
parsePattern(s) == parsePatternAt(s, IndexAny(s, Blank))

\* --- conflicts between registered patterns (ServeMux.Handle panics on one)

inverseRelationship(r) ==
    CASE r = "moreSpecific" -> "moreGeneral"
      [] r = "moreGeneral"  -> "moreSpecific"
      [] OTHER              -> r

combineRelationships(r1, r2) ==
    CASE r1 = "equivalent" -> r2
      [] r1 = "disjoint"   -> "disjoint"
      [] r1 = "overlaps"   -> (IF r2 = "disjoint" THEN "disjoint" ELSE "overlaps")
      [] OTHER ->
           IF r2 = "equivalent" THEN r1
           ELSE IF r2 = inverseRelationship(r1) THEN "overlaps"
           ELSE r2

compareSegments(s1, s2) ==
    IF s1.multi /\ s2.multi THEN "equivalent"
    ELSE IF s1.multi THEN "moreGeneral"
    ELSE IF s2.multi THEN "moreSpecific"
    ELSE IF s1.wild /\ s2.wild THEN "equivalent"
    ELSE IF s1.wild THEN (IF s2.s = <<"/">> THEN "disjoint" ELSE "moreGeneral")
    ELSE IF s2.wild THEN (IF s1.s = <<"/">> THEN "disjoint" ELSE "moreSpecific")
    ELSE IF s1.s = s2.s THEN "equivalent"
    ELSE "disjoint"

RECURSIVE comparePathsFrom(_, _, _, _)
comparePathsFrom(segs1, segs2, k, rel) ==
    IF rel = "disjoint" THEN rel
    ELSE IF k > Len(segs1) /\ k > Len(segs2) THEN rel
    ELSE IF k > Len(segs1)
         THEN (IF segs1[Len(segs1)].multi THEN combineRelationships(rel, "moreGeneral")
               ELSE "disjoint")
    ELSE IF k > Len(segs2)
         THEN (IF segs2[Len(segs2)].multi THEN combineRelationships(rel, "moreSpecific")
               ELSE "disjoint")
    ELSE comparePathsFrom(segs1, segs2, k + 1,
                          combineRelationships(rel, compareSegments(segs1[k], segs2[k])))

comparePaths(p1, p2) ==
    IF Len(p1.segs) # Len(p2.segs) /\ ~p1.segs[Len(p1.segs)].multi
                                   /\ ~p2.segs[Len(p2.segs)].multi
    THEN "disjoint"
    ELSE comparePathsFrom(p1.segs, p2.segs, 1, "equivalent")

MethodGET == <<"G", "E", "T">>

MethodHEAD == <<"H", "E", "A", "D">>

compareMethods(p1, p2) ==
    IF p1.method = p2.method THEN "equivalent"
    ELSE IF p1.method = <<>> THEN "moreGeneral"
    ELSE IF p2.method = <<>> THEN "moreSpecific"
    ELSE IF p1.method = MethodGET /\ p2.method = MethodHEAD THEN "moreGeneral"
    ELSE IF p2.method = MethodGET /\ p1.method = MethodHEAD THEN "moreSpecific"
    ELSE "disjoint"

comparePathsAndMethods(p1, p2) ==
    IF compareMethods(p1, p2) = "disjoint" THEN "disjoint"
    ELSE combineRelationships(compareMethods(p1, p2), comparePaths(p1, p2))

conflictsWith(p1, p2) ==
    /\ p1.host = p2.host
    /\ comparePathsAndMethods(p1, p2) \in {"equivalent", "overlaps"}

\* --- matching a request against the registered patterns

\* firstSegment: the path's first segment, unescaped, and the rest; path
\* begins with "/".  The trailing slash of a path is the segment "/".
firstSegment(path) ==
    IF path = <<"/">> THEN [seg |-> <<"/">>, rest |-> <<>>]
    ELSE LET p1 == Tail(path)
             i  == IndexAny(p1, {"/"})
         IN  IF i = 0 THEN [seg |-> pathUnescape(p1), rest |-> <<>>]
             ELSE [seg |-> pathUnescape(SubSeq(p1, 1, i - 1)), rest |-> SubSeq(p1, i, Len(p1))]

\* routingNode.addChild and findChild keep the child for the key "" in
\* emptyChild: a single wildcard and an empty literal segment (the pattern
\* "//a" has one) are the same child of a routing node.
emptyChild(sg) == ~sg.multi /\ (sg.wild \/ sg.s = <<>>)

\* whether the pattern segments segs[k..] match path: the walk of
\* routingNode.matchPath along one pattern.  The emptyChild takes any segment
\* but the trailing slash, a literal child the segment that is its key.
RECURSIVE matchPath(_, _, _)
matchPath(segs, k, path) ==
    IF path = <<>> THEN k > Len(segs)
    ELSE IF k > Len(segs) THEN FALSE
    ELSE IF segs[k].multi THEN TRUE
    ELSE LET fs == firstSegment(path)
         IN  IF emptyChild(segs[k])
             THEN fs.seg # <<"/">> /\ matchPath(segs, k + 1, fs.rest)
             ELSE fs.seg = segs[k].s /\ matchPath(segs, k + 1, fs.rest)

\* The routing tree tries a literal child before the emptyChild and the
\* emptyChild before the multi wildcard, at each segment in turn: of two
\* matching patterns it finds the one that is the more literal at the first
\* segment where they differ in kind.
RECURSIVE prefers(_, _, _)
prefers(segs1, segs2, k) ==
    IF k > Len(segs1) \/ k > Len(segs2) THEN FALSE
    ELSE LET rank(sg) == IF sg.multi THEN 0 ELSE IF emptyChild(sg) THEN 1 ELSE 2
         IN  IF rank(segs1[k]) # rank(segs2[k]) THEN rank(segs1[k]) > rank(segs2[k])
             ELSE prefers(segs1, segs2, k + 1)

\* A handler value: the middleware layers around it, outermost first, and
\* what they wrap: a handler function (kind "fn") or a router's ServeHTTP
\* (kind "router").
NilHandler == [layers |-> <<>>, kind |-> "nil", fn |-> "", sub |-> 0]

\* One registered pattern: the pattern string, its parse and its handler.
\* reg is the place in the history of the call that registered it.
NoEntry == [pat |-> <<>>, method |-> <<>>, host |-> <<>>, segs |-> <<>>,
            handler |-> NilHandler, reg |-> 0]

IsNoEntry(n) == n.pat = <<>>

\* whether two patterns are stored at the same place of the routing tree:
\* under the same host and method, by the same children
sameLeaf(p, f) ==
    /\ p.host = f.host /\ p.method = f.method /\ Len(p.segs) = Len(f.segs)
    /\ \A k \in 1..Len(p.segs) :
           \/ p.segs[k].multi /\ f.segs[k].multi
           \/ emptyChild(p.segs[k]) /\ emptyChild(f.segs[k])
           \/ /\ ~p.segs[k].multi /\ ~f.segs[k].multi
              /\ ~p.segs[k].wild /\ ~f.segs[k].wild /\ p.segs[k].s = f.segs[k].s

\* the entry the routing tree finds among the matching entries c
preferred(c) ==
    IF c = {} THEN NoEntry
    ELSE CHOOSE e \in c : \A f \in c \ {e} : ~prefers(f.segs, e.segs, 1)

\* routingNode.matchPath under one host and one method.  addSegments gives a
\* pattern that ends in a multi wildcard a new multiChild, which replaces
\* the one a pattern registered earlier at the same place had: the tree no
\* longer holds the earlier pattern.
matchIn(entries, host, method, path) ==
    preferred({e \in entries : /\ e.host = host /\ e.method = method
                               /\ matchPath(e.segs, 1, path)
                               /\ ~\E f \in entries : f.reg > e.reg /\ sameLeaf(e, f)})

firstEntry(m1, m2, m3) ==
    IF ~IsNoEntry(m1) THEN m1 ELSE IF ~IsNoEntry(m2) THEN m2 ELSE m3

\* routingNode.matchMethodAndPath: the method's patterns, for HEAD those of
\* GET, then the patterns without a method
matchMethodAndPath(entries, host, method, path) ==
    firstEntry(matchIn(entries, host, method, path),
               matchIn(entries, host, IF method = MethodHEAD THEN MethodGET ELSE method, path),
               matchIn(entries, host, <<>>, path))

\* routingTree.match: the patterns of the request's host first
match(entries, host, method, path) ==
    firstEntry(IF host = <<>> THEN NoEntry ELSE matchMethodAndPath(entries, host, method, path),
               matchMethodAndPath(entries, <<>>, method, path),
               NoEntry)

exactMatch(n, path) ==
    IF IsNoEntry(n) THEN FALSE
    ELSE IF ~n.segs[Len(n.segs)].multi THEN TRUE
    ELSE IF Len(path) > 0 /\ path[Len(path)] # "/" THEN FALSE
    ELSE Len(n.segs) = Count(path, "/")

\* whether some pattern with a method matches path (or path + "/") under
\* another method: the request is then answered 405 instead of 404
matchingMethods(entries, host, path) ==
    \E e \in entries :
        /\ e.method # <<>>
        /\ e.host \in {host, <<>>}
        /\ \/ matchPath(e.segs, 1, path)
           \/ (~HasSuffix(path, <<"/">>) /\ matchPath(e.segs, 1, path \o <<"/">>))

\* net.SplitHostPort: the host of "host:port" or "[host]:port", ok FALSE on
\* an error; h holds a ":"
SplitHostPort(h) ==
    LET i == LastIndex(h, ":")
        e == IndexAny(h, {"]"})
    IN  IF h[1] = "["
        THEN (IF e = 0 \/ e + 1 # i THEN [ok |-> FALSE, host |-> <<>>]
              ELSE IF \E k \in (2..(e - 1)) \cup ((i + 1)..Len(h)) : h[k] \in {"[", "]"}
                   THEN [ok |-> FALSE, host |-> <<>>]
              ELSE [ok |-> TRUE, host |-> SubSeq(h, 2, e - 1)])
        ELSE IF Contains(SubSeq(h, 1, i - 1), ":") THEN [ok |-> FALSE, host |-> <<>>]
        ELSE IF \E k \in 1..Len(h) : h[k] \in {"[", "]"} THEN [ok |-> FALSE, host |-> <<>>]
        ELSE [ok |-> TRUE, host |-> SubSeq(h, 1, i - 1)]

\* net/http's stripHostPort
stripHostPort(h) ==
    IF ~Contains(h, ":") THEN h
    ELSE IF SplitHostPort(h).ok THEN SplitHostPort(h).host
    ELSE h

\* net/url's validEncoded in the mode encodePath
validEncoded(s) ==
    \A i \in 1..Len(s) :
        \/ s[i] \in {"!", "$", "&", "'", "(", ")", "*", "+", ",", ";", "=", ":", "@",
                      "[", "]", "%"}
        \/ ~shouldEscape(s[i])

\* URL.EscapedPath: RawPath when it is a valid encoding of Path, else the
\* escape of Path
EscapedPath(path, rawPath) ==
    IF rawPath # <<>> /\ validEncoded(rawPath) /\ validEscapes(rawPath)
                      /\ unescaped(rawPath) = path
    THEN rawPath
    ELSE IF path = <<"*">> THEN path
    ELSE escape(path)

\* URL.String of a URL that has a path, which begins with "/", and a query
URLString(path, rawQuery) ==
    escape(path) \o (IF rawQuery # <<>> THEN <<"?">> \o rawQuery ELSE <<>>)

\* What ServeMux.findHandler returns: what serves the request and the
\* matched pattern ("" when nothing matched).
\*   kind "handler":  the registered handler of entry n
\*   kind "redirect": net/http's RedirectHandler(location, 301)
\*   kind "notallowed" / "notfound": net/http's 405 and 404 handlers
Found(kind, pattern, location, n) ==
    [kind |-> kind, pattern |-> pattern, location |-> location, entry |-> n]

\* n matched nothing: 405 when another method would have matched, else 404
unmatched(entries, host, path) ==
    IF matchingMethods(entries, host, path)
    THEN Found("notallowed", <<>>, <<>>, NoEntry)
    ELSE Found("notfound", <<>>, <<>>, NoEntry)

\* ServeMux.matchOrRedirect with a URL: whether path, which n matched, is to
\* be redirected to path + "/", which n2 matched
redirectsToSlash(n, n2, path) ==
    ~exactMatch(n, path) /\ ~HasSuffix(path, <<"/">>) /\ exactMatch(n2, path \o <<"/">>)

\* the redirect of matchOrRedirect: to the clean path of the URL + "/"
slashRedirect(r) ==
    CHOOSE fh \in {Found("redirect", path, URLString(path, r.rawQuery), NoEntry) :
                       path \in {cleanPath(r.path) \o <<"/">>}} : TRUE

\* findHandler for a request that is not CONNECT: host is the request's
\* host without its port, path the clean path of the escaped path esc, n the
\* match of path and n2 the match of path + "/"
findHandlerOf(n, n2, entries, host, path, esc, r) ==
    IF redirectsToSlash(n, n2, path) THEN slashRedirect(r)
    ELSE IF path # esc THEN Found("redirect", n.pat, URLString(path, r.rawQuery), NoEntry)
    ELSE IF ~IsNoEntry(n) THEN Found("handler", n.pat, <<>>, n)
    ELSE unmatched(entries, host, path)

\* findHandler for a CONNECT request, which is not made canonical: n and n2
\* are the matches of path and path + "/" under the host of the URL, nh the
\* match of path under the Host header
findHandlerCONNECT(n, n2, nh, entries, urlHost, path, r) ==
    IF redirectsToSlash(n, n2, path) THEN slashRedirect(r)
    ELSE IF ~IsNoEntry(nh) THEN Found("handler", nh.pat, <<>>, nh)
    ELSE unmatched(entries, urlHost, path)

\* the host of the URL of a request in origin form
URLHost == <<>>

\* ServeMux.findHandler on the request r with the escaped path esc; a
\* request that is not CONNECT is resolved under its host without the port
\* and the clean path of esc
findHandlerAt(entries, r, esc) ==
    IF r.method = MethodCONNECT
    THEN findHandlerCONNECT(match(entries, URLHost, r.method, esc),
                            match(entries, URLHost, r.method, esc \o <<"/">>),
                            match(entries, r.host, r.method, esc),
                            entries, URLHost, esc, r)
    ELSE CHOOSE fh \in {findHandlerOf(match(entries, host, r.method, path),
                                      match(entries, host, r.method, path \o <<"/">>),
                                      entries, host, path, esc, r) :
                            host \in {stripHostPort(r.host)}, path \in {cleanPath(esc)}} : TRUE

\* ServeMux.findHandler on the request r: host, escapedPath and path are
\* computed once, then the routing tree is searched
findHandler(entries, r) ==
    CHOOSE fh \in {findHandlerAt(entries, r, esc) : esc \in {EscapedPath(r.path, r.rawPath)}} : TRUE

\* a ServeMux.Handle that lets a pattern registered again replace the entry
\* it has
registerParsedAgain(entries, pattern, p, handler, reg) ==
    IF ~p.ok THEN [entries |-> entries, panic |-> TRUE]
    ELSE IF \E f \in entries : conflictsWith(p, f) /\ f.pat # pattern
         THEN [entries |-> entries, panic |-> TRUE]
    ELSE [entries |-> {f \in entries : f.pat # pattern}
                          \cup {[pat |-> pattern, method |-> p.method, host |-> p.host,
                                 segs |-> p.segs, handler |-> handler, reg |-> reg]},
          panic |-> FALSE]

\* p is the parse of pattern.  After the check for conflicts addPattern
\* stores the pattern in the routing tree, and routingNode.set panics when
\* the leaf it reaches holds a pattern already: the registry is as before.
registerParsed(entries, pattern, p, handler, reg) ==
    IF ~p.ok THEN [entries |-> entries, panic |-> TRUE]
    ELSE IF \E f \in entries : conflictsWith(p, f) THEN [entries |-> entries, panic |-> TRUE]
    ELSE IF ~p.segs[Len(p.segs)].multi /\ \E f \in entries : sameLeaf(p, f)
         THEN [entries |-> entries, panic |-> TRUE]
    ELSE [entries |-> entries \cup {[pat |-> pattern, method |-> p.method, host |-> p.host,
                                     segs |-> p.segs, handler |-> handler, reg |-> reg]},
          panic |-> FALSE]

\* ServeMux.Handle: the entries after registering pattern, or a panic (the
\* pattern does not parse, or conflicts with a registered one).
register(entries, pattern, handler, reg) ==
    registerParsed(entries, pattern, parsePattern(pattern), handler, reg)

\* ------------------------------------------------------------------------
\* the router package
\* ------------------------------------------------------------------------

StatusOK == 200

StatusMovedPermanently == 301

StatusTemporaryRedirect == 307

StatusForbidden == 403

StatusNotFound == 404

StatusMethodNotAllowed == 405

\* buildRootPath: "/" + segment for every segment that is neither empty nor
\* "/", each stripped of one leading and one trailing slash
RECURSIVE buildRootPathFrom(_, _, _)
buildRootPathFrom(paths, k, path) ==
    IF k > Len(paths) THEN path
    ELSE IF paths[k] = <<>> \/ paths[k] = <<"/">> THEN buildRootPathFrom(paths, k + 1, path)
    ELSE buildRootPathFrom(paths, k + 1,
             path \o <<"/">> \o TrimSuffix(TrimPrefix(paths[k], <<"/">>), <<"/">>))

buildRootPath(paths) == buildRootPathFrom(paths, 1, <<>>)

\* a fullPattern that keeps the separator of the input
fullPatternSameSeparator(rootPath, pattern) ==
    LET i == IndexAny(pattern, Blank) IN
    IF rootPath = <<>> THEN pattern
    ELSE IF i > 0
         THEN SubSeq(pattern, 1, i) \o rootPath
                  \o TrimLeft(SubSeq(pattern, i, Len(pattern)), Blank)
    ELSE rootPath \o pattern

\* a fullPattern that puts the root path before the whole pattern
fullPatternInFront(rootPath, pattern) == rootPath \o pattern

\* muxWrapper.fullPattern
fullPattern(rootPath, pattern) ==
    LET i == IndexAny(pattern, Blank) IN
    IF rootPath = <<>> THEN pattern
    ELSE IF i > 0
         THEN SubSeq(pattern, 1, i - 1) \o <<" ">> \o rootPath
                  \o TrimLeft(SubSeq(pattern, i, Len(pattern)), Blank)
    ELSE rootPath \o pattern

\* The alias muxWrapper.Handle registers beside the full pattern: "" when none.
aliasPattern(pattern) ==
    IF Contains(pattern, "-") THEN ReplaceAll(pattern, "-", "_")
    ELSE IF Contains(pattern, "_") THEN ReplaceAll(pattern, "_", "-")
    ELSE <<>>

\* muxWrapper.Handle up to its first ServeMux.Handle, of the full pattern, on
\* the registry m: the ServeMux entries afterwards, or a panic
handleFull(m, pattern, handler, reg) ==
    register(m.entries, fullPattern(m.rootPath, pattern), handler, reg)

\* newMuxWrapper
newMuxWrapper(paths) ==
    [entries |-> {}, httpHandler |-> "nil", notFoundHandler |-> "nil",
     rootPath |-> buildRootPath(paths)]

\* one middleware applied to a handler: it becomes the outermost layer
applyMiddleware(mw, out) == [out EXCEPT !.layers = <<mw>> \o @]

RECURSIVE wrapLoop(_, _, _)
wrapLoop(chain, idx, out) ==
    IF idx < 1 THEN out ELSE wrapLoop(chain, idx - 1, applyMiddleware(chain[idx], out))

\* a wrap that folds the router's chain first: the per-route middleware
\* would run outside the router's chain
wrapRouterChainInside(rchain, fn, chain) ==
    wrapLoop(chain, Len(chain), wrapLoop(rchain, Len(rchain), fn))

\* Router.wrap: the per-route chain from last to first, then the router's
\* chain from last to first
wrap(rchain, fn, chain) ==
    wrapLoop(rchain, Len(rchain), wrapLoop(chain, Len(chain), fn))

HandlerFunc(fn) == [layers |-> <<>>, kind |-> "fn", fn |-> fn, sub |-> 0]

RouterHandler(r) == [layers |-> <<>>, kind |-> "router", fn |-> "", sub |-> r]

\* statusInterceptor: the wrapper's fields, and the response it wraps; wraps
\* is the number of interceptors around the response the server gave
NoInterceptor == [set |-> FALSE, originalPath |-> <<>>, Status |-> 0, wraps |-> 0]

\* the response the server gives: what was written to it, the optional
\* interfaces it implements (caps) and the calls of them it received
NoResponse == [status |-> 0, location |-> <<>>, body |-> "", caps |-> {}, calls |-> <<>>]

ErrNotSupported == "ErrNotSupported"

\* what a call returns: Hijack a connection and an error, Push an error,
\* Flush nothing; "" is no value, "nil" is Go's nil
Returned(conn, err) == [conn |-> conn, err |-> err]

\* the call the underlying response received, and what it returned
Forwarded(w, call, target, ret) ==
    [w |-> [w EXCEPT !.calls = Append(@, [call |-> call, target |-> target, ret |-> ret])],
     ret |-> ret]

\* a Hijack that reports no error when the response cannot be taken over
HijackNoError(w, result) ==
    IF "Hijacker" \in w.caps THEN Forwarded(w, "Hijack", <<>>, result)
    ELSE [w |-> w, ret |-> Returned("nil", "nil")]

\* statusInterceptor.Hijack; result is what the underlying Hijack returns
Hijack(w, result) ==
    IF "Hijacker" \in w.caps THEN Forwarded(w, "Hijack", <<>>, result)
    ELSE [w |-> w, ret |-> Returned("nil", ErrNotSupported)]

\* statusInterceptor.Flush
Flush(w) ==
    IF "Flusher" \in w.caps THEN Forwarded(w, "Flush", <<>>, Returned("", ""))
    ELSE [w |-> w, ret |-> Returned("", "")]

\* statusInterceptor.Push; result is what the underlying Push returns
Push(w, target, result) ==
    IF "Pusher" \in w.caps THEN Forwarded(w, "Push", target, result)
    ELSE [w |-> w, ret |-> Returned("", ErrNotSupported)]

\* a toStatusInterceptor that wraps whatever it is given
toStatusInterceptorAgain(si, path) ==
    [set |-> TRUE, originalPath |-> path, Status |-> 0, wraps |-> si.wraps + 1]

\* toStatusInterceptor: an interceptor is returned as it is
toStatusInterceptor(si, path) ==
    IF si.set THEN si
    ELSE [set |-> TRUE, originalPath |-> path, Status |-> 0, wraps |-> si.wraps + 1]

\* a WriteHeader that commits every code as it is
WriteHeaderUnchanged(si, w, code) == [si |-> si, w |-> [w EXCEPT !.status = code]]

\* a WriteHeader that turns every 301 into 307, whatever the Location
WriteHeaderEveryRedirect(si, w, code) ==
    IF code = StatusMovedPermanently
    THEN [si |-> [si EXCEPT !.Status = StatusTemporaryRedirect],
          w  |-> [w EXCEPT !.status = StatusTemporaryRedirect]]
    ELSE [si |-> si, w |-> [w EXCEPT !.status = code]]

\* statusInterceptor.WriteHeader(code) on the interceptor si around the
\* response w, whose Location header is w.location
WriteHeader(si, w, code) ==
    IF code = StatusMovedPermanently /\ w.location = si.originalPath \o <<"/">>
    THEN [si |-> [si EXCEPT !.Status = StatusTemporaryRedirect],
          w  |-> [w EXCEPT !.status = StatusTemporaryRedirect]]
    ELSE [si |-> si, w |-> [w EXCEPT !.status = code]]

\* ------------------------------------------------------------------------
\* state
\* ------------------------------------------------------------------------

VARIABLES
    routers,   \* the Router values made so far: [mux, chain]; routers[1] is NewRouter's
    muxes,     \* the muxWrapper values: [entries, httpHandler, notFoundHandler, rootPath]
    pending,   \* the Route calls whose fn is running, innermost last: [parent, sub, path]
    hist,      \* history: the calls that built the tree, in order, NewRouter first
    panicked,  \* a ServeMux.Handle call panicked: the program is gone
    ops,       \* the number of building calls made
    req,       \* the request being dispatched
    parked     \* the requests other goroutines of the server are dispatching

vars == <<routers, muxes, pending, hist, panicked, ops, req, parked>>

NoRequest ==
    [active |-> FALSE, method |-> <<>>, host |-> <<>>, requestURI |-> <<>>, path |-> <<>>,
     rawPath |-> <<>>, rawQuery |-> <<>>,
     entry |-> 0, pc |-> "idle", mux |-> 0, handler |-> NilHandler, reg |-> 0,
     trace |-> <<>>, served |-> 0, outcome |-> "", w |-> NoResponse, si |-> NoInterceptor,
     code |-> 0, calls |-> <<>>]

\* One call of the history: the method called, the router it was called on,
\* its arguments (chain: middleware, fn: handler, val: a wrapper or handler
\* name, arg: a path or pattern), the router it made (sub) and, for a
\* registration, the registry, its root path, the full pattern and, while
\* the call is inside muxWrapper.Handle, the alias it has still to register.
CallRecord(call, r) ==
    [call |-> call, router |-> r, sub |-> 0, mux |-> 0, chain |-> <<>>, fn |-> NilHandler,
     val |-> "", arg |-> <<>>, rootPath |-> <<>>, pattern |-> <<>>, alias |-> <<>>,
     panic |-> FALSE]

\* NewRouter(chain...)
NewRouter(chain) ==
    /\ routers = <<[mux |-> 1, chain |-> chain]>>
    /\ muxes = <<newMuxWrapper(<<>>)>>
    /\ pending = <<>>
    /\ hist = <<[CallRecord("NewRouter", 1) EXCEPT !.chain = chain, !.mux = 1]>>
    /\ panicked = FALSE
    /\ ops = 0
    /\ req = NoRequest
    /\ parked = <<>>

\* the program is alive and no request is being dispatched
Idle == ~panicked /\ ~req.active /\ parked = <<>>

\* the goroutine that builds the tree is inside muxWrapper.Handle, between
\* its two ServeMux.Handle calls
Registering == hist[Len(hist)].alias # <<>>

\* a building call: one more of at most MaxOps
Building == Idle /\ ~Registering /\ ops < MaxOps /\ ops' = ops + 1

RouterIds == 1..Len(routers)

\* ------------------------------------------------------------------------
\* building the router tree
\* ------------------------------------------------------------------------

\* a SetHandler that keeps the global wrapper the registry already has
SetHandlerOnce(r, handler) ==
    /\ Building
    /\ muxes' = [muxes EXCEPT ![routers[r].mux].httpHandler =
                                  IF @ = "nil" THEN handler ELSE @]
    /\ hist' = Append(hist, [CallRecord("SetHandler", r) EXCEPT !.val = handler,
                                                              !.mux = routers[r].mux])
    /\ UNCHANGED <<routers, pending, panicked, req, parked>>

\* Router.SetHandler
SetHandler(r, handler) ==
    /\ Building
    /\ muxes' = [muxes EXCEPT ![routers[r].mux].httpHandler = handler]
    /\ hist' = Append(hist, [CallRecord("SetHandler", r) EXCEPT !.val = handler,
                                                              !.mux = routers[r].mux])
    /\ UNCHANGED <<routers, pending, panicked, req, parked>>

\* a SetNotFoundHandler that reaches every registry of the tree
SetNotFoundHandlerTree(r, handler) ==
    /\ Building
    /\ muxes' = [m \in 1..Len(muxes) |-> [muxes[m] EXCEPT !.notFoundHandler = handler]]
    /\ hist' = Append(hist, [CallRecord("SetNotFoundHandler", r) EXCEPT !.val = handler,
                                                                      !.mux = routers[r].mux])
    /\ UNCHANGED <<routers, pending, panicked, req, parked>>

\* Router.SetNotFoundHandler
SetNotFoundHandler(r, handler) ==
    /\ Building
    /\ muxes' = [muxes EXCEPT ![routers[r].mux].notFoundHandler = handler]
    /\ hist' = Append(hist, [CallRecord("SetNotFoundHandler", r) EXCEPT !.val = handler,
                                                                      !.mux = routers[r].mux])
    /\ UNCHANGED <<routers, pending, panicked, req, parked>>

\* Router.SetBasePath
SetBasePath(r, path) ==
    /\ Building
    /\ muxes' = [muxes EXCEPT ![routers[r].mux].rootPath = path]
    /\ hist' = Append(hist, [CallRecord("SetBasePath", r) EXCEPT !.arg = path,
                                                               !.mux = routers[r].mux])
    /\ UNCHANGED <<routers, pending, panicked, req, parked>>

\* Router.AppendPath
AppendPath(r, path) ==
    /\ Building
    /\ muxes' = [muxes EXCEPT ![routers[r].mux].rootPath = buildRootPath(<<@, path>>)]
    /\ hist' = Append(hist, [CallRecord("AppendPath", r) EXCEPT !.arg = path,
                                                              !.mux = routers[r].mux])
    /\ UNCHANGED <<routers, pending, panicked, req, parked>>

\* a Use that reaches the routes already registered on the registry
UseRetroactive(r, chain) ==
    /\ Building
    /\ routers' = [routers EXCEPT ![r].chain = @ \o chain]
    /\ muxes' = [muxes EXCEPT ![routers[r].mux].entries =
                     {[e EXCEPT !.handler.layers = @ \o chain] : e \in @}]
    /\ hist' = Append(hist, [CallRecord("Use", r) EXCEPT !.chain = chain,
                                                       !.mux = routers[r].mux])
    /\ UNCHANGED <<pending, panicked, req, parked>>

\* a Use on a chain that every router of the registry shares
UseShared(r, chain) ==
    /\ Building
    /\ routers' = [i \in RouterIds |->
                      IF routers[i].mux = routers[r].mux
                      THEN [routers[i] EXCEPT !.chain = @ \o chain] ELSE routers[i]]
    /\ hist' = Append(hist, [CallRecord("Use", r) EXCEPT !.chain = chain,
                                                       !.mux = routers[r].mux])
    /\ UNCHANGED <<muxes, pending, panicked, req, parked>>

\* Router.Use
Use(r, chain) ==
    /\ Building
    /\ routers' = [routers EXCEPT ![r].chain = @ \o chain]
    /\ hist' = Append(hist, [CallRecord("Use", r) EXCEPT !.chain = chain,
                                                       !.mux = routers[r].mux])
    /\ UNCHANGED <<muxes, pending, panicked, req, parked>>

\* a Group whose router has a registry of its own, a copy of the parent's
GroupOwnRegistry(r) ==
    /\ Building
    /\ muxes' = Append(muxes, muxes[routers[r].mux])
    /\ routers' = Append(routers, [mux |-> Len(muxes) + 1, chain |-> routers[r].chain])
    /\ hist' = Append(hist, [CallRecord("Group", r) EXCEPT !.sub = Len(routers) + 1,
                                                         !.mux = Len(muxes) + 1,
                                                         !.chain = routers[r].chain])
    /\ UNCHANGED <<pending, panicked, req, parked>>

\* Router.Group: fn gets a router on the same registry with a clone of the chain
Group(r) ==
    /\ Building
    /\ routers' = Append(routers, [mux |-> routers[r].mux, chain |-> routers[r].chain])
    /\ hist' = Append(hist, [CallRecord("Group", r) EXCEPT !.sub = Len(routers) + 1,
                                                         !.mux = routers[r].mux,
                                                         !.chain = routers[r].chain])
    /\ UNCHANGED <<muxes, pending, panicked, req, parked>>

\* the state after the first ServeMux.Handle of r.mux.Handle returned res (or
\* panicked): the call goes on with the alias of the full pattern, if it
\* has one
registered(r, m, kind, pattern, fn, chain, res) ==
    /\ muxes' = [muxes EXCEPT ![m].entries = res.entries]
    /\ panicked' = res.panic
    /\ hist' = Append(hist, [CallRecord(kind, r) EXCEPT
                                 !.mux = m, !.chain = chain, !.fn = fn, !.arg = pattern,
                                 !.rootPath = muxes[m].rootPath,
                                 !.pattern = fullPattern(muxes[m].rootPath, pattern),
                                 !.alias = IF res.panic THEN <<>>
                                           ELSE aliasPattern(fullPattern(muxes[m].rootPath, pattern)),
                                 !.panic = res.panic])
    /\ UNCHANGED <<routers, req, parked>>

\* r.mux.Handle(pattern, r.wrap(fn, chain)), as Any, handle and Mount call
\* it, up to the return of its first ServeMux.Handle.  muxWrapper.Handle
\* holds no lock of its own: ServeMux.Handle takes the lock of the ServeMux
\* and gives it back, so that a request the server dispatches meanwhile
\* finds the full pattern registered and not yet the alias.  A pattern
\* without "-" and "_" has no alias, and the call is over.
Registration(r, kind, pattern, fn, chain) ==
    registered(r, routers[r].mux, kind, pattern, fn, chain,
               handleFull(muxes[routers[r].mux], pattern,
                          wrap(routers[r].chain, fn, chain), Len(hist) + 1))

\* the rest of muxWrapper.Handle: the second ServeMux.Handle, of the alias,
\* with the handler the full pattern has.  A panic leaves the full pattern
\* registered, and ends the program with the requests it is dispatching.
HandleAlias ==
    /\ ~panicked
    /\ Registering
    /\ \E res \in {register(muxes[hist[Len(hist)].mux].entries, hist[Len(hist)].alias,
                             (CHOOSE e \in muxes[hist[Len(hist)].mux].entries :
                                  e.reg = Len(hist)).handler,
                             Len(hist))} :
           /\ muxes' = [muxes EXCEPT ![hist[Len(hist)].mux].entries = res.entries]
           /\ panicked' = res.panic
           /\ hist' = [hist EXCEPT ![Len(hist)].alias = <<>>, ![Len(hist)].panic = res.panic]
           /\ req' = IF res.panic THEN NoRequest ELSE req
           /\ parked' = IF res.panic THEN <<>> ELSE parked
    /\ UNCHANGED <<routers, pending, ops>>

\* a handle that registers the path without the method token
handleAnyMethod(r, method, path, fn, chain) ==
    /\ Building
    /\ Registration(r, "handle", path, HandlerFunc(fn), chain)
    /\ UNCHANGED pending

\* Router.handle, behind Get, Post, Put, Delete, Head, Options and Handle
handle(r, method, path, fn, chain) ==
    /\ Building
    /\ Registration(r, "handle", method \o <<" ">> \o path, HandlerFunc(fn), chain)
    /\ UNCHANGED pending

\* Router.Any
Any(r, path, fn, chain) ==
    /\ Building
    /\ Registration(r, "Any", path, HandlerFunc(fn), chain)
    /\ UNCHANGED pending

\* a Mount that registers the path as it was given
mountAsGiven(r, path, h, chain) ==
    Registration(r, "Mount", path, h, chain)

\* Router.Mount
mount(r, path, h, chain) ==
    Registration(r, "Mount", TrimSuffix(path, <<"/">>) \o <<"/">>, h, chain)

\* Router.Mount of a handler that is not a router
Mount(r, path, fn, chain) ==
    /\ Building
    /\ mount(r, path, HandlerFunc(fn), chain)
    /\ UNCHANGED pending

\* a Route whose sub-router starts without a not-found handler
RouteBeginNoNotFound(r, path, chain) ==
    /\ Building
    /\ muxes' = Append(muxes,
           [entries |-> {}, httpHandler |-> "nil", notFoundHandler |-> "nil",
            rootPath |-> buildRootPath(<<muxes[routers[r].mux].rootPath, path>>)])
    /\ routers' = Append(routers, [mux |-> Len(muxes) + 1, chain |-> chain])
    /\ pending' = Append(pending, [parent |-> r, sub |-> Len(routers) + 1, path |-> path])
    /\ hist' = Append(hist, [CallRecord("Route", r) EXCEPT
                                 !.sub = Len(routers) + 1, !.mux = routers[r].mux,
                                 !.chain = chain, !.arg = path,
                                 !.val = muxes[routers[r].mux].notFoundHandler,
                                 !.rootPath = muxes[routers[r].mux].rootPath])
    /\ UNCHANGED <<panicked, req, parked>>

\* Router.Route up to the call of fn: the sub-router exists, on a registry of
\* its own, and is not mounted yet.  The history gets the call when it
\* returns, with the Mount that ends it.
RouteBegin(r, path, chain) ==
    /\ Building
    /\ muxes' = Append(muxes,
           [entries |-> {}, httpHandler |-> "nil",
            notFoundHandler |-> muxes[routers[r].mux].notFoundHandler,
            rootPath |-> buildRootPath(<<muxes[routers[r].mux].rootPath, path>>)])
    /\ routers' = Append(routers, [mux |-> Len(muxes) + 1, chain |-> chain])
    /\ pending' = Append(pending, [parent |-> r, sub |-> Len(routers) + 1, path |-> path])
    /\ hist' = Append(hist, [CallRecord("Route", r) EXCEPT
                                 !.sub = Len(routers) + 1, !.mux = routers[r].mux,
                                 !.chain = chain, !.arg = path,
                                 !.val = muxes[routers[r].mux].notFoundHandler,
                                 !.rootPath = muxes[routers[r].mux].rootPath])
    /\ UNCHANGED <<panicked, req, parked>>

\* a Route that mounts the sub-router without the parent's chain around it
RouteEndUnwrapped ==
    /\ Idle
    /\ ~Registering
    /\ pending # <<>>
    /\ LET p == pending[Len(pending)]
           m == routers[p.parent].mux
       IN  registered(p.parent, m, "Mount", TrimSuffix(p.path, <<"/">>) \o <<"/">>,
                      RouterHandler(p.sub), <<>>,
                      handleFull(muxes[m], TrimSuffix(p.path, <<"/">>) \o <<"/">>,
                                 RouterHandler(p.sub), Len(hist) + 1))
    /\ pending' = SubSeq(pending, 1, Len(pending) - 1)
    /\ UNCHANGED ops

\* Router.Route after fn returned: r.Mount(path, subRouter)
RouteEnd ==
    /\ Idle
    /\ ~Registering
    /\ pending # <<>>
    /\ mount(pending[Len(pending)].parent, pending[Len(pending)].path,
             RouterHandler(pending[Len(pending)].sub), <<>>)
    /\ pending' = SubSeq(pending, 1, Len(pending) - 1)
    /\ UNCHANGED ops

\* ------------------------------------------------------------------------
\* dispatching a request
\*
\* req.pc is where the request is: "mux" at the entry of a muxWrapper's
\* ServeHTTP, "notfound" before the not-found handler, "global" before the
\* global wrapper, "servemux" before ServeMux.ServeHTTP, "chain" inside a
\* registered handler (req.handler is what is left of it), "done" returned.
\* A wrapper (the global wrapper, a middleware) either calls its next or
\* answers the request itself.  req.trace lists what ran, in order.
\*
\* ServeMux.findHandler holds the lock of the registry for one search at a
\* time: matchOrRedirect for the request, for a CONNECT request that is not
\* redirected matchOrRedirect once more under the Host header, and
\* matchingMethods when nothing matched.  Between two of them the registry
\* changes only when a registration is in progress; then the later search
\* is a step of its own, at req.pc "mux.rematch" (in ServeMux.Handler),
\* "rematch" or "methods" (in ServeMux.ServeHTTP).
\* ------------------------------------------------------------------------

Ran(kind, id) == [kind |-> kind, id |-> id, mux |-> req.mux]

\* what a wrapper or handler writes: WriteHeader(code), then Write(body)
written(q, wh, body) == [q EXCEPT !.si = wh.si, !.w = [wh.w EXCEPT !.body = body]]

\* q.code keeps the code that was given to WriteHeader, q.calls the calls
\* of Hijack, Flush and Push the handler made and what they returned
Respond(q, code, body) ==
    written([q EXCEPT !.code = code], WriteHeader(q.si, q.w, code), body)

\* the path of a request target, and its query
targetPath(target) ==
    IF Contains(target, "?") THEN SubSeq(target, 1, IndexAny(target, {"?"}) - 1) ELSE target

targetQuery(target) ==
    IF Contains(target, "?") THEN SubSeq(target, IndexAny(target, {"?"}) + 1, Len(target))
    ELSE <<>>

\* The request targets of the model are those in origin form ("/path?query")
\* and "*".  Of these http.ReadRequest takes the ones that hold no space (the
\* request line is split at its spaces), no control character (the bytes
\* below 0x20 and 0x7F), and whose path has valid escapes.
validTarget(target) ==
    /\ target # <<>>
    /\ target[1] = "/" \/ target = <<"*">>
    /\ \A i \in 1..Len(target) :
           target[i] # " " /\ ~\E n \in (0..31) \cup {127} : byteChar(n) = target[i]
    /\ validEscapes(targetPath(target))

\* URL.setPath: RawPath is kept when it is not the escape of Path
setRawPath(p) == IF escape(unescaped(p)) = p THEN <<>> ELSE p

\* httptest.NewRequest(method, target, nil): an empty method is GET
requestMethod(method) == IF method = <<>> THEN MethodGET ELSE method

\* whether httptest.NewRequest returns a request: http.ReadRequest takes a
\* method that is a token and a target it can parse.  A CONNECT request for
\* "*" has a target in authority form, which is none of the model.
validRequest(method, target) ==
    /\ validMethod(requestMethod(method))
    /\ validTarget(target)
    /\ target = <<"*">> => requestMethod(method) # MethodCONNECT

\* the request the server makes of a request line and a Host header, given
\* to router r: path, rawPath and rawQuery are the fields of its URL
NewRequest(r, method, host, target) ==
    [NoRequest EXCEPT !.active = TRUE, !.method = requestMethod(method), !.host = host,
                      !.requestURI = target,
                      !.path = unescaped(targetPath(target)),
                      !.rawPath = IF target = <<"*">> THEN <<>>
                                  ELSE setRawPath(targetPath(target)),
                      !.rawQuery = targetQuery(target),
                      !.entry = r, !.pc = "mux", !.mux = routers[r].mux]

\* Router.ServeHTTP: a request for target arrives at router r
Arrive(r, method, host, target) ==
    /\ Idle
    /\ pending = <<>>
    /\ validRequest(method, target)
    /\ req' = NewRequest(r, method, host, target)
    /\ UNCHANGED <<routers, muxes, pending, hist, panicked, ops, parked>>

\* a ServeHTTP that looks at the global wrapper before the not-found handler
enteredGlobalFirst(m, q, pattern) ==
    IF m.httpHandler # "nil" THEN [q EXCEPT !.pc = "global"]
    ELSE IF m.notFoundHandler # "nil" /\ pattern = <<>> THEN [q EXCEPT !.pc = "notfound"]
    ELSE [q EXCEPT !.pc = "servemux"]

\* muxWrapper.ServeHTTP of registry m on request q, whose interceptor is in
\* place; pattern is the matched pattern ServeMux.Handler returns
entered(m, q, pattern) ==
    IF m.notFoundHandler # "nil" /\ pattern = <<>> THEN [q EXCEPT !.pc = "notfound"]
    ELSE IF m.httpHandler # "nil" THEN [q EXCEPT !.pc = "global"]
    ELSE [q EXCEPT !.pc = "servemux"]

\* the number of requests the server dispatches besides the running one
MaxParked == 1

\* the server gives another request to router r on a goroutine of its own,
\* while the requests it gave before are in flight
Accept(r, method, host, target) ==
    /\ ~panicked
    /\ req.active
    /\ pending = <<>>
    /\ Len(parked) < MaxParked
    /\ validRequest(method, target)
    /\ parked' = Append(parked, req)
    /\ req' = NewRequest(r, method, host, target)
    /\ UNCHANGED <<routers, muxes, pending, hist, panicked, ops>>

\* the scheduler runs the goroutine of request i; the goroutine that ran
\* waits, or is gone when its dispatch call has returned
Schedule(i) ==
    /\ i \in DOMAIN parked
    /\ req' = parked[i]
    /\ parked' = IF req.active THEN [parked EXCEPT ![i] = req]
                 ELSE SubSeq(parked, 1, i - 1) \o SubSeq(parked, i + 1, Len(parked))
    /\ UNCHANGED <<routers, muxes, pending, hist, panicked, ops>>

\* a ServeHTTP that takes the interceptor of a request in flight
ServeHTTPSharedInterceptor ==
    /\ req.pc = "mux"
    /\ req' = entered(muxes[req.mux],
                      [req EXCEPT !.si = IF parked # <<>> /\ parked[1].si.set
                                         THEN parked[1].si
                                         ELSE toStatusInterceptor(req.si, req.path)],
                      findHandler(muxes[req.mux].entries, req).pattern)
    /\ UNCHANGED <<routers, muxes, pending, hist, panicked, ops, parked>>

\* a ServeHTTP that does not resolve the request before serving it
ServeHTTPUnresolved ==
    /\ req.pc = "mux"
    /\ req' = entered(muxes[req.mux],
                      [req EXCEPT !.si = toStatusInterceptor(req.si, req.path)],
                      <<"/">>)
    /\ UNCHANGED <<routers, muxes, pending, hist, panicked, ops, parked>>

\* the lock section findHandler enters after the first, which gave fh, or
\* "done": a redirect is decided in the first section, and so is the handler
\* of a request that is not CONNECT
nextSection(q, fh) ==
    IF fh.kind = "redirect" THEN "done"
    ELSE IF q.method = MethodCONNECT THEN "rematch"
    ELSE IF fh.kind = "handler" THEN "done"
    ELSE "methods"

\* muxWrapper.ServeHTTP up to its first call of a handler.  The pattern
\* ServeMux.Handler returns is known after the first search, but for a
\* CONNECT request that is not redirected.
ServeHTTP ==
    /\ req.pc = "mux"
    /\ \E fh \in {findHandler(muxes[req.mux].entries, req)} :
           req' = IF /\ Registering
                     /\ muxes[req.mux].notFoundHandler # "nil"
                     /\ nextSection(req, fh) = "rematch"
                  THEN [req EXCEPT !.si = toStatusInterceptor(req.si, req.path),
                                   !.pc = "mux.rematch"]
                  ELSE entered(muxes[req.mux],
                               [req EXCEPT !.si = toStatusInterceptor(req.si, req.path)],
                               fh.pattern)
    /\ UNCHANGED <<routers, muxes, pending, hist, panicked, ops, parked>>

\* ServeMux.Handler on a CONNECT request that was not redirected: the
\* search under the Host header gives the matched pattern
HandlerRematch ==
    /\ req.pc = "mux.rematch"
    /\ req' = entered(muxes[req.mux], req,
                      match(muxes[req.mux].entries, req.host, req.method,
                            EscapedPath(req.path, req.rawPath)).pat)
    /\ UNCHANGED <<routers, muxes, pending, hist, panicked, ops, parked>>

\* m.notFoundHandler.ServeHTTP(w, r), after which ServeHTTP returns
NotFoundHandler ==
    /\ req.pc = "notfound"
    /\ LET nf == muxes[req.mux].notFoundHandler
           q  == [req EXCEPT !.trace = Append(@, Ran("notfound", nf)),
                             !.outcome = "notfound", !.pc = "done"]
       IN  req' = Respond(q, StatusNotFound, nf)
    /\ UNCHANGED <<routers, muxes, pending, hist, panicked, ops, parked>>

\* m.httpHandler(m.ServeMux).ServeHTTP(w, r): the global wrapper runs and
\* calls its next, the ServeMux, or answers the request itself
GlobalWrapper ==
    /\ req.pc = "global"
    /\ LET g == muxes[req.mux].httpHandler
           q == [req EXCEPT !.trace = Append(@, Ran("global", g))]
       IN  \/ req' = [q EXCEPT !.pc = "servemux"]
           \/ req' = Respond([q EXCEPT !.outcome = "blocked", !.pc = "done"],
                             StatusForbidden, g)
    /\ UNCHANGED <<routers, muxes, pending, hist, panicked, ops, parked>>

\* a ServeMux that leaves a request without a handler unanswered
servedUnanswered(q, fh) ==
    IF fh.kind = "handler"
    THEN [q EXCEPT !.pc = "chain", !.handler = fh.entry.handler, !.reg = fh.entry.reg]
    ELSE [q EXCEPT !.outcome = "default404", !.pc = "done"]

\* the string of a sequence of characters; a byte that is a token of the
\* model (the backquote is one) stays that token
RECURSIVE Str(_)
Str(s) == IF s = <<>> THEN "" ELSE Head(s) \o Str(Tail(s))

\* net/http's hexEscapeNonASCII: every byte outside ASCII as "%xx", in
\* lower-case digits
hexEscapeNonASCII(s) ==
    LET lower(c) == IF \E i \in 11..16 : Hex[i] = c
                    THEN Hex[(CHOOSE i \in 11..16 : Hex[i] = c) + 6] ELSE c
        hex(c) == IF c \in NonAscii THEN [i \in 1..Len(PctNonAscii(c)) |-> lower(PctNonAscii(c)[i])]
                  ELSE IF \E n \in 128..255 : byteChar(n) = c
                  THEN [i \in 1..3 |-> lower(PctByte(CHOOSE n \in 128..255 : byteChar(n) = c)[i])]
                  ELSE <<c>>
    IN  Concat([i \in 1..Len(s) |-> hex(s[i])])

\* http.Redirect(w, r, url, code), for a url that begins with "/" and names
\* no host, as those of ServeMux are: the path of url is cleaned, its
\* trailing slash kept, the Location header set and the code written; the
\* body, a link to url, is written for a GET request only.  The response
\* has no Content-Type before.
Redirect(q, url, code) ==
    LET trailing(p, c) == IF HasSuffix(p, <<"/">>) /\ ~HasSuffix(c, <<"/">>) THEN c \o <<"/">> ELSE c
        cleaned(p, query) == trailing(p, Clean(p)) \o query
        htmlEscape(c) == CASE c = "&"  -> <<"&", "a", "m", "p", ";">>
                           [] c = "<"  -> <<"&", "l", "t", ";">>
                           [] c = ">"  -> <<"&", "g", "t", ";">>
                           [] c = "\"" -> <<"&", "#", "3", "4", ";">>
                           [] c = "'"  -> <<"&", "#", "3", "9", ";">>
                           [] OTHER    -> <<c>>
    IN  CHOOSE y \in {Respond([q EXCEPT !.w.location = hexEscapeNonASCII(u)], code,
                              IF q.method = MethodGET
                              THEN "<a href=\"" \o Str(Concat([k \in 1..Len(u) |-> htmlEscape(u[k])]))
                                       \o "\">Moved Permanently</a>.\n\n"
                              ELSE "") :
                          u \in {cleaned(IF i = 0 THEN url ELSE SubSeq(url, 1, i - 1),
                                         IF i = 0 THEN <<>> ELSE SubSeq(url, i, Len(url))) :
                                     i \in {IndexAny(url, {"?"})}}} : TRUE

StatusBadRequest == 400

\* what ServeMux.ServeHTTP does with request q once findHandler returned fh;
\* http.Error ends the text it writes with a newline
served(q, fh) ==
    CASE fh.kind = "handler" ->
           [q EXCEPT !.pc = "chain", !.handler = fh.entry.handler, !.reg = fh.entry.reg]
      [] fh.kind = "redirect" ->
           Redirect([q EXCEPT !.outcome = "redirect", !.pc = "done"],
                    fh.location, StatusMovedPermanently)
      [] fh.kind = "notallowed" ->
           Respond([q EXCEPT !.outcome = "notallowed", !.pc = "done"],
                   StatusMethodNotAllowed, "Method Not Allowed\n")
      [] OTHER ->
           Respond([q EXCEPT !.outcome = "default404", !.pc = "done"],
                   StatusNotFound, "404 page not found\n")

\* ServeMux.ServeHTTP: the request for "*" is answered 400; else the
\* matching handler is entered, or net/http answers with its redirect, its
\* 404 or its 405.  While a registration is in progress findHandler goes as
\* far as its first search, when that does not decide the answer.
ServeMuxServeHTTP ==
    /\ req.pc = "servemux"
    /\ \E fh \in {findHandler(muxes[req.mux].entries, req)} :
           req' = IF req.requestURI = <<"*">>
                  THEN Respond([req EXCEPT !.outcome = "badrequest", !.pc = "done"],
                               StatusBadRequest, "")
                  ELSE IF Registering /\ nextSection(req, fh) # "done"
                  THEN [req EXCEPT !.pc = nextSection(req, fh)]
                  ELSE served(req, fh)
    /\ UNCHANGED <<routers, muxes, pending, hist, panicked, ops, parked>>

\* findHandler on a CONNECT request that was not redirected: the search
\* under the Host header gives the handler; when it finds none
\* matchingMethods follows
Rematch ==
    /\ req.pc = "rematch"
    /\ \E nh \in {match(muxes[req.mux].entries, req.host, req.method,
                         EscapedPath(req.path, req.rawPath))} :
           req' = IF ~IsNoEntry(nh) THEN served(req, Found("handler", nh.pat, <<>>, nh))
                  ELSE IF Registering THEN [req EXCEPT !.pc = "methods"]
                  ELSE served(req, unmatched(muxes[req.mux].entries, URLHost,
                                             EscapedPath(req.path, req.rawPath)))
    /\ UNCHANGED <<routers, muxes, pending, hist, panicked, ops, parked>>

\* findHandler after no pattern matched the request: matchingMethods on
\* the host and path that were searched tells the 405 from the 404
AllowedMethods ==
    /\ req.pc = "methods"
    /\ req' = served(req,
                     IF req.method = MethodCONNECT
                     THEN unmatched(muxes[req.mux].entries, URLHost,
                                    EscapedPath(req.path, req.rawPath))
                     ELSE unmatched(muxes[req.mux].entries, stripHostPort(req.host),
                                    cleanPath(EscapedPath(req.path, req.rawPath))))
    /\ UNCHANGED <<routers, muxes, pending, hist, panicked, ops, parked>>

\* a middleware whose next is called although it answered the request
MiddlewareAlwaysNext ==
    /\ req.pc = "chain"
    /\ req.handler.layers # <<>>
    /\ LET mw == Head(req.handler.layers)
           q  == [req EXCEPT !.trace = Append(@, Ran("middleware", mw)),
                             !.handler.layers = Tail(@)]
       IN  \/ req' = q
           \/ req' = Respond([q EXCEPT !.outcome = "blocked"], StatusForbidden, mw)
    /\ UNCHANGED <<routers, muxes, pending, hist, panicked, ops, parked>>

\* the outermost middleware left of the handler runs and calls its next, or
\* answers the request itself
Middleware ==
    /\ req.pc = "chain"
    /\ req.handler.layers # <<>>
    /\ LET mw == Head(req.handler.layers)
           q  == [req EXCEPT !.trace = Append(@, Ran("middleware", mw))]
       IN  \/ req' = [q EXCEPT !.handler.layers = Tail(@)]
           \/ req' = Respond([q EXCEPT !.outcome = "blocked", !.pc = "done"],
                             StatusForbidden, mw)
    /\ UNCHANGED <<routers, muxes, pending, hist, panicked, ops, parked>>

\* Router.ServeHTTP: a request arrives at router r, with a response that
\* implements the optional interfaces caps
ArriveOn(r, method, host, target, caps) ==
    /\ Idle
    /\ pending = <<>>
    /\ validRequest(method, target)
    /\ req' = [NewRequest(r, method, host, target) EXCEPT !.w.caps = caps]
    /\ UNCHANGED <<routers, muxes, pending, hist, panicked, ops, parked>>

\* the number of Hijack, Flush and Push calls a handler makes
MaxCalls == 2

\* the handler function of a route is running and may call its response
HandlerRunning ==
    /\ req.pc = "chain"
    /\ req.handler.layers = <<>>
    /\ req.handler.kind = "fn"

\* the request after the handler's call, which returned c.ret and left the
\* underlying response as c.w
called(q, call, target, c) ==
    [q EXCEPT !.w = c.w,
              !.calls = Append(@, [call |-> call, target |-> target, ret |-> c.ret])]

\* the handler function calls Hijack on the response it was given
HandlerHijacks(result) ==
    /\ HandlerRunning
    /\ Len(req.calls) < MaxCalls
    /\ req' = called(req, "Hijack", <<>>, Hijack(req.w, result))
    /\ UNCHANGED <<routers, muxes, pending, hist, panicked, ops, parked>>

\* the handler function calls Flush on the response it was given
HandlerFlushes ==
    /\ HandlerRunning
    /\ Len(req.calls) < MaxCalls
    /\ req' = called(req, "Flush", <<>>, Flush(req.w))
    /\ UNCHANGED <<routers, muxes, pending, hist, panicked, ops, parked>>

\* the handler function calls Push on the response it was given
HandlerPushes(target, result) ==
    /\ HandlerRunning
    /\ Len(req.calls) < MaxCalls
    /\ req' = called(req, "Push", target, Push(req.w, target, result))
    /\ UNCHANGED <<routers, muxes, pending, hist, panicked, ops, parked>>

\* the body Router.NotFound writes when no not-found handler is set
NotFoundBody == "{\"error\": \"Not Found\"}"

\* Router.NotFound of router r, called by the handler function of a route
\* with its own response and request: the not-found handler of r's registry
\* answers, or 404 and NotFoundBody are written
NotFound(r) ==
    /\ req.pc = "chain"
    /\ req.handler.layers = <<>>
    /\ req.handler.kind = "fn"
    /\ LET nf == muxes[routers[r].mux].notFoundHandler
           q  == [req EXCEPT !.trace = Append(@, Ran("handler", req.handler.fn)),
                             !.served = req.reg, !.outcome = "served", !.pc = "done"]
       IN  IF nf # "nil"
           THEN req' = Respond([q EXCEPT !.trace = Append(@, Ran("notfound", nf))],
                               StatusNotFound, nf)
           ELSE req' = Respond(q, StatusNotFound, NotFoundBody)
    /\ UNCHANGED <<routers, muxes, pending, hist, panicked, ops, parked>>

\* the handler function of a route sets the Location header, or leaves it
\* unset (location is ""), and writes a status of its own
HandlerWrites(code, location) ==
    /\ req.pc = "chain"
    /\ req.handler.layers = <<>>
    /\ req.handler.kind = "fn"
    /\ LET q == [req EXCEPT !.trace = Append(@, Ran("handler", req.handler.fn)),
                            !.w.location = location,
                            !.served = req.reg, !.outcome = "served", !.pc = "done"]
       IN  req' = Respond(q, code, req.handler.fn)
    /\ UNCHANGED <<routers, muxes, pending, hist, panicked, ops, parked>>

\* the handler function of a route runs
Handler ==
    /\ req.pc = "chain"
    /\ req.handler.layers = <<>>
    /\ req.handler.kind = "fn"
    /\ LET q == [req EXCEPT !.trace = Append(@, Ran("handler", req.handler.fn)),
                            !.served = req.reg, !.outcome = "served", !.pc = "done"]
       IN  req' = Respond(q, StatusOK, req.handler.fn)
    /\ UNCHANGED <<routers, muxes, pending, hist, panicked, ops, parked>>

\* the handler is a mounted router: Router.ServeHTTP calls its own
\* registry's ServeHTTP with the same response and request
SubRouter ==
    /\ req.pc = "chain"
    /\ req.handler.layers = <<>>
    /\ req.handler.kind = "router"
    /\ req' = [req EXCEPT !.pc = "mux", !.mux = routers[req.handler.sub].mux,
                          !.handler = NilHandler]
    /\ UNCHANGED <<routers, muxes, pending, hist, panicked, ops, parked>>

\* the dispatch call returns to the server
Return ==
    /\ req.pc = "done"
    /\ req' = NoRequest
    /\ UNCHANGED <<routers, muxes, pending, hist, panicked, ops, parked>>

\* ------------------------------------------------------------------------
\* SpecChain: one registry, its router and the routers Group makes from it;
\* routes with per-route middleware, Use and SetHandler in any order.
\* ------------------------------------------------------------------------

ExampleHost == <<"x">>

PathA == <<"/", "a">>

PathB == <<"/", "b">>

ChainMiddleware == {"m1", "m2"}

ChainInit == {<<>>, <<"m1", "m2">>}

ChainPerRoute == {<<>>, <<"m3", "m1">>}

ChainPaths == {PathA, PathB}

InitChain == \E c \in ChainInit : NewRouter(c)

\* NewRouter() and NewRouter(m1), the routers the other specifications
\* begin with
InitPlain == NewRouter(<<>>)

InitWithChain == NewRouter(<<"m1">>)

NextChain ==
    \/ \E r \in RouterIds, mw \in ChainMiddleware : Use(r, <<mw>>)
    \/ \E r \in RouterIds : Group(r)
    \/ \E r \in RouterIds, p \in ChainPaths, c \in ChainPerRoute : handle(r, MethodGET, p, "h1", c)
    \/ \E r \in RouterIds : SetHandler(r, "g1")
    \/ \E p \in ChainPaths : Arrive(1, MethodGET, ExampleHost, p)
    \/ ServeHTTP
    \/ GlobalWrapper
    \/ ServeMuxServeHTTP
    \/ Middleware
    \/ Handler
    \/ Return

SpecChain == InitChain /\ [][NextChain]_vars

\* ------------------------------------------------------------------------
\* SpecTree: a tree of routers made with Route, each on a registry of its
\* own, with not-found handlers and global wrappers set in any order;
\* requests arrive at any router of the tree.
\* ------------------------------------------------------------------------

PathApi == <<"/", "a", "p", "i">>

PathApiBare == <<"a", "p", "i">>

PathX == <<"/", "x">>

TreeRoutePaths == {PathApi, PathApiBare}

TreeNotFoundHandlers == {"nf1", "nf2"}

TreeRequestPaths == {PathX, PathApi \o PathX, PathApi \o <<"/", "y">>, PathApi \o PathApi \o PathX}

\* the number of building calls in a tree
MaxTreeOps == 3

NextTree ==
    \/ ops < MaxTreeOps /\ \E r \in RouterIds, p \in TreeRoutePaths : RouteBegin(r, p, <<>>)
    \/ RouteEnd
    \/ ops < MaxTreeOps /\ \E r \in RouterIds : handle(r, MethodGET, PathX, "h1", <<>>)
    \/ ops < MaxTreeOps /\ \E r \in RouterIds, nf \in TreeNotFoundHandlers :
                               SetNotFoundHandler(r, nf)
    \/ ops < MaxTreeOps /\ \E r \in RouterIds : SetHandler(r, "g1")
    \/ \E r \in RouterIds, p \in TreeRequestPaths : Arrive(r, MethodGET, ExampleHost, p)
    \/ ServeHTTP
    \/ NotFoundHandler
    \/ GlobalWrapper
    \/ ServeMuxServeHTTP
    \/ Middleware
    \/ Handler
    \/ SubRouter
    \/ Return

SpecTree == InitWithChain /\ [][NextTree]_vars

\* ------------------------------------------------------------------------
\* SpecRedirect: routes whose pattern ends in a slash, in a router and in
\* the sub-tree Route mounts, and requests of several methods for the paths
\* with and without the slash, with a query and with an escaped space.
\* ------------------------------------------------------------------------

MethodPOST == <<"P", "O", "S", "T">>

MethodDELETE == <<"D", "E", "L", "E", "T", "E">>

PathD == <<"/", "d">>

RedirectMethods == {MethodGET, MethodPOST, MethodDELETE}

RedirectRoutes == {PathD \o <<"/", "{", "$", "}">>, PathD \o <<"/">>}

\* /d e, which needs an escape in a URL
PathSpace == PathD \o <<" ", "e">>

PathSpaceEscaped == PathD \o <<"%", "2", "0", "e">>

\* request targets: paths, a path with a query, which is outside ASCII, and
\* a path with an escape
RedirectRequestPaths ==
    {PathD, PathApi, PathApi \o PathD, PathApi \o PathD \o <<"/">>,
     PathD \o <<"?", "é">>, PathSpaceEscaped}

\* the number of building calls before the requests
MaxRedirectOps == 3

NextRedirect ==
    \/ ops < MaxRedirectOps /\ \E r \in RouterIds, m \in RedirectMethods, p \in RedirectRoutes :
                                   handle(r, m, p, "h1", <<>>)
    \/ ops < MaxRedirectOps /\ handle(1, MethodPOST, PathSpace \o <<"/">>, "h1", <<>>)
    \/ ops < MaxRedirectOps /\ RouteBegin(1, PathApi \o <<"/">>, <<>>)
    \/ RouteEnd
    \/ \E m \in RedirectMethods, p \in RedirectRequestPaths : Arrive(1, m, ExampleHost, p)
    \/ ServeHTTP
    \/ ServeMuxServeHTTP
    \/ Handler
    \/ SubRouter
    \/ Return

SpecRedirect == InitPlain /\ [][NextRedirect]_vars

\* ------------------------------------------------------------------------
\* SpecAlias: routes whose pattern has hyphens, underscores, wildcards and an
\* escaped hyphen, with or without a not-found handler; GET and CONNECT
\* requests arrive between the registrations and while one is in progress.
\* ------------------------------------------------------------------------

PathFooHyphen == <<"/", "f", "-", "b">>

PathFooUnderscore == <<"/", "f", "_", "b">>

PathUserId == <<"/", "u", "/", "{", "i", "_", "d", "}">>

\* /f%2Db, the escaped spelling of /f-b
PathFooEscaped == <<"/", "f", "%", "2", "D", "b">>

AliasRoutes == {PathX, PathFooHyphen, PathFooUnderscore, PathUserId, PathFooEscaped}

AliasHandlers == {"h1", "h2"}

AliasRequestPaths == {PathX, PathFooHyphen, PathFooUnderscore, <<"/", "u", "/", "7">>}

AliasMethods == {MethodGET, MethodCONNECT}

\* the number of building calls on the router
MaxAliasOps == 3

NextAlias ==
    \/ ops < MaxAliasOps /\ \E p \in AliasRoutes, h \in AliasHandlers :
                                handle(1, MethodGET, p, h, <<>>)
    \/ ops < MaxAliasOps /\ \E p \in AliasRoutes, h \in AliasHandlers : Any(1, p, h, <<>>)
    \/ ops < MaxAliasOps /\ SetNotFoundHandler(1, "nf1")
    \/ HandleAlias
    \/ \E m \in AliasMethods, p \in AliasRequestPaths : Arrive(1, m, ExampleHost, p)
    \/ ServeHTTP
    \/ HandlerRematch
    \/ NotFoundHandler
    \/ ServeMuxServeHTTP
    \/ Rematch
    \/ AllowedMethods
    \/ Handler
    \/ Return

SpecAlias == InitPlain /\ [][NextAlias]_vars

\* ------------------------------------------------------------------------
\* SpecBase: one router whose root path is set and extended between the
\* registrations of a route.
\* ------------------------------------------------------------------------

PathV == <<"/", "v">>

PathW == <<"/", "w">>

BaseSetPaths == {PathV, <<"v">>, PathV \o <<"/">>}

BaseAppendPaths == {<<"w">>, PathW \o <<"/">>, <<"w", "/", "/">>}

BaseRequestPaths == {PathX, PathV \o PathX, PathW \o PathX, PathV \o PathW \o PathX}

\* the number of building calls on the router
MaxBaseOps == 4

NextBase ==
    \/ ops < MaxBaseOps /\ \E p \in BaseSetPaths : SetBasePath(1, p)
    \/ ops < MaxBaseOps /\ \E p \in BaseAppendPaths : AppendPath(1, p)
    \/ ops < MaxBaseOps /\ handle(1, MethodGET, PathX, "h1", <<>>)
    \/ \E p \in BaseRequestPaths : Arrive(1, MethodGET, ExampleHost, p)
    \/ ServeHTTP
    \/ ServeMuxServeHTTP
    \/ Handler
    \/ Return

SpecBase == InitPlain /\ [][NextBase]_vars

\* ------------------------------------------------------------------------
\* SpecMount: one router with a chain and a base path, on which a foreign
\* handler is mounted with and without a chain of its own.
\* ------------------------------------------------------------------------

PathS == <<"/", "s">>

MountPaths == {PathS, PathS \o <<"/">>}

MountChains == {<<>>, <<"m2">>}

MountRequestPaths ==
    {PathS \o <<"/">>, PathS \o PathX, PathV \o PathS, PathV \o PathS \o <<"/">>,
     PathV \o PathS \o PathX}

\* the number of building calls on the router
MaxMountOps == 4

NextMount ==
    \/ ops < MaxMountOps /\ SetBasePath(1, PathV)
    \/ ops < MaxMountOps /\ Use(1, <<"m1">>)
    \/ ops < MaxMountOps /\ \E p \in MountPaths, c \in MountChains : Mount(1, p, "ext", c)
    \/ \E m \in {MethodGET, MethodPOST}, p \in MountRequestPaths : Arrive(1, m, ExampleHost, p)
    \/ ServeHTTP
    \/ ServeMuxServeHTTP
    \/ Middleware
    \/ Handler
    \/ Return

SpecMount == InitPlain /\ [][NextMount]_vars

\* ------------------------------------------------------------------------
\* SpecJoin: a new router whose root path is extended segment by segment.
\* ------------------------------------------------------------------------

JoinSegments ==
    {<<>>, <<"/">>, <<"x">>, <<"/", "x">>, <<"x", "/">>, <<"/", "x", "/">>,
     <<"x", "/", "y">>, <<"/", "/">>, <<"x", "/", "/">>, <<"/", "/", "x">>}

\* the number of AppendPath calls
MaxJoinOps == 3

NextJoin == ops < MaxJoinOps /\ \E s \in JoinSegments : AppendPath(1, s)

SpecJoin == InitPlain /\ [][NextJoin]_vars

\* ------------------------------------------------------------------------
\* SpecMethods: one router with per-method routes for one path and Any
\* routes for another, and requests of every method for both.
\* ------------------------------------------------------------------------

MethodPUT == <<"P", "U", "T">>

MethodOPTIONS == <<"O", "P", "T", "I", "O", "N", "S">>

MethodPATCH == <<"P", "A", "T", "C", "H">>

\* a method token of Router.Handle with a character that is no letter
MethodPlus == <<"M", "+">>

\* Get, Post, Put, Delete, Head and Options, and Handle with a method
RouterMethods ==
    {MethodGET, MethodPOST, MethodPUT, MethodDELETE, MethodHEAD, MethodOPTIONS, MethodPlus}

RequestMethods == RouterMethods \cup {MethodPATCH}

\* the number of building calls on the router
MaxMethodOps == 3

NextMethods ==
    \/ ops < MaxMethodOps /\ \E m \in RouterMethods : handle(1, m, PathA, "h1", <<>>)
    \/ ops < MaxMethodOps /\ Any(1, PathB, "h2", <<>>)
    \/ \E m \in RequestMethods, p \in {PathA, PathB} : Arrive(1, m, ExampleHost, p)
    \/ ServeHTTP
    \/ ServeMuxServeHTTP
    \/ Handler
    \/ Return

SpecMethods == InitPlain /\ [][NextMethods]_vars

\* ------------------------------------------------------------------------
\* SpecNotFound: one router with a GET route and a route under a host, with
\* and without a not-found handler and a global wrapper, and requests that
\* match no pattern: another path, another method, CONNECT, a path with an
\* empty segment or a ".." segment, the target "*", a Host header with a
\* port; the handler of a route may call Router.NotFound.
\* ------------------------------------------------------------------------

PathUnclean == <<"/">> \o PathB

\* /a/../b, which is /b when clean, and /b/../a, which is /a
PathDotDotB == PathA \o <<"/", ".", ".">> \o PathB

PathDotDotA == PathB \o <<"/", ".", ".">> \o PathA

\* the request target "*", which is no path
TargetStar == <<"*">>

NotFoundRequestPaths == {PathA, PathB, PathUnclean, PathDotDotB, PathDotDotA, TargetStar}

NotFoundMethods == {MethodGET, MethodPOST, MethodCONNECT}

HostWithPort == ExampleHost \o <<":", "8">>

NotFoundHosts == {ExampleHost, HostWithPort}

\* the number of building calls on the router
MaxNotFoundOps == 3

NextNotFound ==
    \/ ops < MaxNotFoundOps /\ handle(1, MethodGET, PathA, "h1", <<>>)
    \/ ops < MaxNotFoundOps /\ Any(1, ExampleHost \o PathB, "h2", <<>>)
    \/ ops < MaxNotFoundOps /\ SetNotFoundHandler(1, "nf1")
    \/ ops < MaxNotFoundOps /\ SetHandler(1, "g1")
    \/ \E m \in NotFoundMethods, h \in NotFoundHosts, p \in NotFoundRequestPaths :
           Arrive(1, m, h, p)
    \/ ServeHTTP
    \/ NotFoundHandler
    \/ GlobalWrapper
    \/ ServeMuxServeHTTP
    \/ Handler
    \/ \E r \in RouterIds : NotFound(r)
    \/ Return

SpecNotFound == InitPlain /\ [][NextNotFound]_vars

\* ------------------------------------------------------------------------
\* SpecSub: a router with a chain and the one sub-router Route makes of it
\* with a chain of its own; Use and SetHandler on both, before, inside and
\* after the Route call; routes with per-route middleware on both.
\* ------------------------------------------------------------------------

\* the global wrapper and the Use middleware of router r
SubGlobal(r) == IF r = 1 THEN "g1" ELSE "g2"

SubUse(r) == IF r = 1 THEN <<"m2">> ELSE <<"m3">>

\* the number of building calls on the two routers
MaxSubOps == 4

NextSub ==
    \/ ops < MaxSubOps /\ Len(routers) = 1 /\ RouteBegin(1, PathApi, <<"s1">>)
    \/ RouteEnd
    \/ ops < MaxSubOps /\ \E r \in RouterIds : Use(r, SubUse(r))
    \/ ops < MaxSubOps /\ \E r \in RouterIds : SetHandler(r, SubGlobal(r))
    \/ ops < MaxSubOps /\ \E r \in RouterIds : handle(r, MethodGET, PathX, "h1", <<"r1">>)
    \/ \E p \in {PathX, PathApi \o PathX} : Arrive(1, MethodGET, ExampleHost, p)
    \/ ServeHTTP
    \/ GlobalWrapper
    \/ ServeMuxServeHTTP
    \/ Middleware
    \/ Handler
    \/ SubRouter
    \/ Return

SpecSub == InitWithChain /\ [][NextSub]_vars

\* ------------------------------------------------------------------------
\* SpecPattern: patterns with a method token handed as they are to the
\* registry (Any passes its argument on unchanged), the method and the
\* path separated by a space, a tab or several of them, under an empty and a
\* non-empty root path.
\* ------------------------------------------------------------------------

PatternSeparators == {<<" ">>, <<"\t">>, <<" ", " ">>, <<"\t", " ">>}

\* paths of a pattern: a clean one and one with a "." segment
PatternPaths == {PathX, <<"/", ".">> \o PathX}

PatternMethods == {MethodGET, MethodPOST}

\* the number of building calls on the router
MaxPatternOps == 3

NextPattern ==
    \/ ops < MaxPatternOps /\ \E p \in {<<>>, PathV} : SetBasePath(1, p)
    \/ ops < MaxPatternOps /\ \E m \in PatternMethods, s \in PatternSeparators, p \in PatternPaths :
                                  Any(1, m \o s \o p, "h1", <<>>)
    \/ \E m \in PatternMethods, p \in {PathX, PathV \o PathX} : Arrive(1, m, ExampleHost, p)
    \/ ServeHTTP
    \/ ServeMuxServeHTTP
    \/ Handler
    \/ Return

SpecPattern == InitPlain /\ [][NextPattern]_vars

\* ------------------------------------------------------------------------
\* SpecGlobal: one registry, its router and a group of it; routes are
\* registered and the global wrapper is set, replaced and removed in any
\* order.
\* ------------------------------------------------------------------------

GlobalWrappers == {"g1", "g2", "nil"}

\* the number of building calls on the registry
MaxGlobalOps == 4

NextGlobal ==
    \/ ops < MaxGlobalOps /\ \E r \in RouterIds, g \in GlobalWrappers : SetHandler(r, g)
    \/ ops < MaxGlobalOps /\ \E r \in RouterIds, p \in {PathA, PathB} :
                                 handle(r, MethodGET, p, "h1", <<>>)
    \/ ops < MaxGlobalOps /\ Len(routers) = 1 /\ Group(1)
    \/ \E r \in RouterIds, p \in {PathA, PathB} : Arrive(r, MethodGET, ExampleHost, p)
    \/ ServeHTTP
    \/ GlobalWrapper
    \/ ServeMuxServeHTTP
    \/ Handler
    \/ Return

SpecGlobal == InitPlain /\ [][NextGlobal]_vars

\* ------------------------------------------------------------------------
\* SpecWrite: routes whose handlers write a status of their own, with and
\* without a Location header, beside the redirects of net/http.
\* ------------------------------------------------------------------------

WriteRoutes == {PathD, PathD \o <<"/">>}

WriteRequestPaths == {PathD, PathD \o <<"/">>, <<"/">> \o PathD, PathD \o <<"?", "q">>}

WriteCodes == {StatusOK, StatusMovedPermanently, StatusTemporaryRedirect, StatusNotFound}

WriteLocations == {<<>>, PathD, PathD \o <<"/">>, PathD \o <<"/", "/">>, PathX \o <<"/">>}

\* the number of building calls on the router
MaxWriteOps == 2

NextWrite ==
    \/ ops < MaxWriteOps /\ \E p \in WriteRoutes : handle(1, MethodGET, p, "h1", <<>>)
    \/ \E p \in WriteRequestPaths : Arrive(1, MethodGET, ExampleHost, p)
    \/ ServeHTTP
    \/ ServeMuxServeHTTP
    \/ \E c \in WriteCodes, l \in WriteLocations : HandlerWrites(c, l)
    \/ Return

SpecWrite == InitPlain /\ [][NextWrite]_vars

\* ------------------------------------------------------------------------
\* SpecPrefix: patterns with and without a method token, with placeholders,
\* handed as they are to the registry under an empty and a non-empty root
\* path.
\* ------------------------------------------------------------------------

PathUserWild == <<"/", "u", "/", "{", "i", "d", "}">>

PathFilesMulti == <<"/", "f", "/", "{", "p", ".", ".", ".", "}">>

\* a wildcard whose name is a letter outside ASCII
PathUnicodeWild == <<"/", "n", "/", "{", "é", "}">>

PrefixPatterns ==
    {PathX, PathUserWild, PathFilesMulti, MethodGET \o <<" ">> \o PathUnicodeWild,
     MethodGET \o <<" ">> \o PathUserWild,
     MethodPOST \o <<"\t">> \o PathFilesMulti,
     MethodGET \o <<" ", "\t">> \o PathX}

PrefixRequestPaths ==
    {PathX, PathV \o PathX, <<"/", "u", "/", "7">>, PathV \o <<"/", "u", "/", "7">>,
     <<"/", "n", "/", "7">>,
     PathV \o <<"/", "f", "/", "a", "/", "b">>}

\* the number of building calls on the router
MaxPrefixOps == 3

NextPrefix ==
    \/ ops < MaxPrefixOps /\ \E p \in {<<>>, PathV} : SetBasePath(1, p)
    \/ ops < MaxPrefixOps /\ \E p \in PrefixPatterns : Any(1, p, "h1", <<>>)
    \/ \E m \in {MethodGET, MethodPOST}, p \in PrefixRequestPaths :
           Arrive(1, m, ExampleHost, p)
    \/ ServeHTTP
    \/ ServeMuxServeHTTP
    \/ Handler
    \/ Return

SpecPrefix == InitPlain /\ [][NextPrefix]_vars

\* ------------------------------------------------------------------------
\* SpecConcurrent: a registry is built, then the server dispatches requests
\* on goroutines of their own, whose steps interleave.
\* ------------------------------------------------------------------------

ConcurrentRoutes == {PathX, PathD \o <<"/">>}

ConcurrentRequestPaths == {PathX, PathD, PathB}

\* the number of building calls on the router
MaxConcurrentOps == 3

NextConcurrent ==
    \/ ops < MaxConcurrentOps /\ \E p \in ConcurrentRoutes : handle(1, MethodGET, p, "h1", <<>>)
    \/ ops < MaxConcurrentOps /\ SetHandler(1, "g1")
    \/ ops < MaxConcurrentOps /\ SetNotFoundHandler(1, "nf1")
    \/ \E p \in ConcurrentRequestPaths : Arrive(1, MethodGET, ExampleHost, p)
    \/ \E p \in ConcurrentRequestPaths : Accept(1, MethodGET, ExampleHost, p)
    \/ \E i \in 1..MaxParked : Schedule(i)
    \/ ServeHTTP
    \/ NotFoundHandler
    \/ GlobalWrapper
    \/ ServeMuxServeHTTP
    \/ Middleware
    \/ Handler
    \/ Return

SpecConcurrent == InitWithChain /\ [][NextConcurrent]_vars

\* ------------------------------------------------------------------------
\* SpecGroup: a router and the router Group gives to fn; global wrapper,
\* not-found handler, root path and routes are set through either, requests
\* go through the parent.
\* ------------------------------------------------------------------------

\* what is set through router r carries r's number
GroupGlobal(r) == IF r = 1 THEN "g1" ELSE "g2"

GroupNotFound(r) == IF r = 1 THEN "nf1" ELSE "nf2"

GroupHandler(r) == IF r = 1 THEN "h1" ELSE "h2"

GroupRequestPaths == {PathX, PathV \o PathX, PathW \o PathX, PathV \o PathW \o PathX}

\* the number of building calls on the two routers
MaxGroupOps == 4

NextGroup ==
    \/ ops < MaxGroupOps /\ Len(routers) = 1 /\ Group(1)
    \/ ops < MaxGroupOps /\ \E r \in RouterIds : SetHandler(r, GroupGlobal(r))
    \/ ops < MaxGroupOps /\ \E r \in RouterIds : SetNotFoundHandler(r, GroupNotFound(r))
    \/ ops < MaxGroupOps /\ \E r \in RouterIds : SetBasePath(r, PathV)
    \/ ops < MaxGroupOps /\ \E r \in RouterIds : AppendPath(r, <<"w">>)
    \/ ops < MaxGroupOps /\ \E r \in RouterIds : handle(r, MethodGET, PathX, GroupHandler(r), <<>>)
    \/ \E p \in GroupRequestPaths : Arrive(1, MethodGET, ExampleHost, p)
    \/ ServeHTTP
    \/ NotFoundHandler
    \/ GlobalWrapper
    \/ ServeMuxServeHTTP
    \/ Handler
    \/ Return

SpecGroup == InitPlain /\ [][NextGroup]_vars

\* ------------------------------------------------------------------------
\* SpecCapability: a handler calls Hijack, Flush and Push on its response;
\* the response the server gave implements some of the three interfaces.
\* ------------------------------------------------------------------------

Capabilities == {"Hijacker", "Flusher", "Pusher"}

\* what the Hijack of an underlying response returns
HijackResults == {Returned("conn", "nil"), Returned("nil", "ErrHijacked")}

\* what the Push of an underlying response returns
PushResults == {Returned("", "nil"), Returned("", "ErrPush")}

PushTargets == {PathA, PathB}

\* the number of building calls on the router
MaxCapabilityOps == 1

NextCapability ==
    \/ ops < MaxCapabilityOps /\ handle(1, MethodGET, PathX, "h1", <<>>)
    \/ \E caps \in SUBSET Capabilities : ArriveOn(1, MethodGET, ExampleHost, PathX, caps)
    \/ ServeHTTP
    \/ ServeMuxServeHTTP
    \/ \E res \in HijackResults : HandlerHijacks(res)
    \/ HandlerFlushes
    \/ \E t \in PushTargets, res \in PushResults : HandlerPushes(t, res)
    \/ Handler
    \/ Return

SpecCapability == InitPlain /\ [][NextCapability]_vars

\* ------------------------------------------------------------------------
\* what the history says a request must run
\* ------------------------------------------------------------------------

\* the chain of router r before call t of the history, replayed from the
\* calls: NewRouter and Route give a router its first chain, Group the
\* chain its parent has at the call, Use appends
RECURSIVE chainBefore(_, _)
chainBefore(r, t) ==
    IF t <= 1 THEN <<>>
    ELSE LET c == hist[t - 1] IN
         IF c.call = "NewRouter" /\ c.router = r THEN c.chain
         ELSE IF c.call = "Use" /\ c.router = r THEN chainBefore(r, t - 1) \o c.chain
         ELSE IF c.call = "Group" /\ c.sub = r THEN chainBefore(c.router, t - 1)
         ELSE IF c.call = "Route" /\ c.sub = r THEN c.chain
         ELSE chainBefore(r, t - 1)

\* the middleware that the Use calls on router r gave it, from call lo + 1 to
\* call hi - 1 of the history
RECURSIVE usedBetween(_, _, _)
usedBetween(r, lo, hi) ==
    IF hi - 1 <= lo THEN <<>>
    ELSE usedBetween(r, lo, hi - 1)
         \o (IF hist[hi - 1].call = "Use" /\ hist[hi - 1].router = r
             THEN hist[hi - 1].chain ELSE <<>>)

\* the call that made router r
madeBy(r) ==
    CHOOSE t \in 1..Len(hist) :
        \/ hist[t].call = "NewRouter" /\ hist[t].router = r
        \/ hist[t].call \in {"Group", "Route"} /\ hist[t].sub = r

\* the calls of Use on router r: those before call k, those after it
usesBefore(r, k) == {j \in 1..(k - 1) : hist[j].call = "Use" /\ hist[j].router = r}

usesAfter(r, k) == {j \in (k + 1)..Len(hist) : hist[j].call = "Use" /\ hist[j].router = r}

\* the global wrapper of registry m, if any
globalOf(m) == IF muxes[m].httpHandler = "nil" THEN <<>> ELSE <<muxes[m].httpHandler>>

\* who ran for the request, in order; the middleware among them
traceIds(tr) == [i \in 1..Len(tr) |-> tr[i].id]

isMiddleware(ev) == ev.kind = "middleware"

middlewareIds(tr) == traceIds(SelectSeq(tr, isMiddleware))

\* the order in which the route registered by call k runs
executionOrder(k) ==
    globalOf(hist[k].mux) \o chainBefore(hist[k].router, k) \o hist[k].chain
        \o <<hist[k].fn.fn>>

isPrefix(s, t) == Len(s) <= Len(t) /\ SubSeq(t, 1, Len(s)) = s

\* the request was served by a route, and every wrapper called its next
ServedByRoute == req.pc = "done" /\ req.outcome = "served"

\* C1: a request a route serves ran, once each and in this order, the global
\* wrapper if one is set, the chain the router had when the route was
\* registered, the per-route middleware of the registration, the handler
C1_ExecutionOrder ==
    ServedByRoute => traceIds(req.trace) = executionOrder(req.served)

\* C1: a route with a global wrapper, two middleware of the router's chain and
\* two per-route middleware served a request
C1_Witness ==
    /\ ServedByRoute
    /\ globalOf(req.mux) # <<>>
    /\ Len(chainBefore(hist[req.served].router, req.served)) >= 2
    /\ Len(hist[req.served].chain) >= 2

\* C2: the middleware a served route ran is what its router was made with,
\* what was given to Use on that router before the registration, and the
\* per-route middleware: every middleware used before the registration ran,
\* and no Use after the registration added anything
C2_ChainAtRegistration ==
    ServedByRoute =>
        LET k == req.served
            r == hist[k].router
        IN  /\ middlewareIds(req.trace)
                 = hist[madeBy(r)].chain \o usedBetween(r, madeBy(r), k) \o hist[k].chain
            /\ \A j \in usesBefore(r, k) :
                   \A i \in 1..Len(hist[j].chain) :
                       \E n \in 1..Len(req.trace) :
                           isMiddleware(req.trace[n]) /\ req.trace[n].id = hist[j].chain[i]

\* C2: a route served a request, its router was given middleware both before
\* and after the registration, and a middleware used after it did not run
C2_Witness ==
    /\ ServedByRoute
    /\ usesBefore(hist[req.served].router, req.served) # {}
    /\ \E j \in usesAfter(hist[req.served].router, req.served) :
           \A n \in 1..Len(req.trace) : req.trace[n].id # hist[j].chain[1]

\* the calls of Group
groupCalls == {t \in 1..Len(hist) : hist[t].call = "Group"}

\* C6: after Group, the group's chain is the parent's chain at the call
\* followed by what was used on the group since, the parent's chain is
\* that chain followed by what was used on the parent since, and a route the
\* parent registers later runs the parent's middleware only
C6_GroupChainIndependent ==
    \A t \in groupCalls :
        /\ hist[t].chain = chainBefore(hist[t].router, t)
        /\ routers[hist[t].sub].chain
             = hist[t].chain \o usedBetween(hist[t].sub, t, Len(hist) + 1)
        /\ routers[hist[t].router].chain
             = hist[t].chain \o usedBetween(hist[t].router, t, Len(hist) + 1)
        /\ ServedByRoute /\ req.served > t /\ hist[req.served].router = hist[t].router
             => middlewareIds(req.trace)
                  = hist[t].chain \o usedBetween(hist[t].router, t, req.served)
                      \o hist[req.served].chain

\* C6: a group was made of a parent with a chain, both were given different
\* middleware since, and a route the parent registered after that served a
\* request
C6_Witness ==
    \E t \in groupCalls :
        /\ hist[t].chain # <<>>
        /\ usedBetween(hist[t].sub, t, Len(hist) + 1) # <<>>
        /\ usedBetween(hist[t].router, t, Len(hist) + 1) # <<>>
        /\ usedBetween(hist[t].sub, t, Len(hist) + 1)
             # usedBetween(hist[t].router, t, Len(hist) + 1)
        /\ ServedByRoute
        /\ hist[req.served].router = hist[t].router
        /\ \E j \in usesAfter(hist[t].sub, t) : j < req.served

\* the wrapper that answered the request itself
blocker == req.trace[Len(req.trace)]

\* C9: when a wrapper answers the request without calling its next, dispatch
\* is over: the wrappers before it in the execution order ran, it ran last,
\* no later wrapper and no handler ran, and the response is what it wrote
C9_ShortCircuit ==
    req.outcome = "blocked" =>
        /\ req.pc = "done"
        /\ req.trace # <<>>
        /\ \A n \in 1..Len(req.trace) : req.trace[n].kind # "handler"
        /\ req.w.body = blocker.id
        /\ req.w.status = StatusForbidden
        /\ IF blocker.kind = "global" THEN traceIds(req.trace) = globalOf(req.mux)
           ELSE /\ isPrefix(traceIds(req.trace), executionOrder(req.reg))
                /\ Len(req.trace) < Len(executionOrder(req.reg))

\* C9: with a global wrapper set, a middleware that is neither the first nor
\* the last of its route answered the request itself
C9_Witness ==
    /\ req.outcome = "blocked"
    /\ req.pc = "done"
    /\ blocker.kind = "middleware"
    /\ Len(req.trace) >= 3
    /\ Len(req.trace) + 1 < Len(executionOrder(req.reg))

\* ------------------------------------------------------------------------
\* not-found precedence and sub-trees
\* ------------------------------------------------------------------------

\* the places in the trace of what ran in registry m; the global wrappers
ranIn(m) == {n \in 1..Len(req.trace) : req.trace[n].mux = m}

globalsRun == {n \in 1..Len(req.trace) : req.trace[n].kind = "global"}

\* the pattern ServeMux.Handler finds for the request in registry m
matchedPattern(m) == findHandler(muxes[m].entries, req).pattern

\* the request ended with a not-found result
EndedNotFound == req.pc = "done" /\ req.outcome \in {"notfound", "default404"}

\* C3: in a registry with a not-found handler, a request that matches no
\* pattern goes to the not-found handler and nowhere else: it is the only
\* thing of that registry that runs, neither the global wrapper nor a
\* middleware of the registry, and the response is the 404 and body it wrote
C3_NotFoundHandlerOnly ==
    /\ req.pc \in {"global", "servemux"} /\ muxes[req.mux].notFoundHandler # "nil"
         => matchedPattern(req.mux) # <<>>
    /\ req.pc = "notfound"
         => /\ muxes[req.mux].notFoundHandler # "nil"
            /\ matchedPattern(req.mux) = <<>>
            /\ ranIn(req.mux) = {}
    /\ req.pc = "done" /\ req.outcome = "notfound"
         => /\ ranIn(req.mux) = {Len(req.trace)}
            /\ req.trace[Len(req.trace)]
                 = [kind |-> "notfound", id |-> muxes[req.mux].notFoundHandler,
                    mux |-> req.mux]
            /\ req.w.status = StatusNotFound
            /\ req.w.body = muxes[req.mux].notFoundHandler

\* C3: a not-found handler answered in a registry that has a global wrapper
\* and a route wrapped in middleware
C3_Witness ==
    /\ req.pc = "done"
    /\ req.outcome = "notfound"
    /\ muxes[req.mux].httpHandler # "nil"
    /\ \E e \in muxes[req.mux].entries : e.handler.layers # <<>>

\* C4, as stated: a request that ends with a not-found result ran no global
\* wrapper
C4_GlobalNeverOnNotFound ==
    EndedNotFound => globalsRun = {}

\* C4, as the code has it: a global wrapper that ran for a request that ended
\* with a not-found result is that of a registry without a not-found
\* handler, or of a registry in which the request matched a pattern (the
\* mount of the sub-tree that produced the result)
C4_GlobalSkippedByNotFoundHandler ==
    EndedNotFound =>
        \A n \in globalsRun :
            \/ muxes[req.trace[n].mux].notFoundHandler = "nil"
            \/ matchedPattern(req.trace[n].mux) # <<>>

\* C4: the not-found handler of a sub-tree answered after the global wrapper
\* of the registry above it ran
C4_Witness ==
    /\ req.pc = "done"
    /\ req.outcome = "notfound"
    /\ \E n \in globalsRun : req.trace[n].mux # req.mux

\* the calls of Route, and the registry of the sub-router a call made
routeCalls == {t \in 1..Len(hist) : hist[t].call = "Route"}

subMux(t) == routers[hist[t].sub].mux

\* the routes registered with handle on the sub-router of Route call t
routesOf(t) ==
    {k \in (t + 1)..Len(hist) : hist[k].call = "handle" /\ hist[k].router = hist[t].sub}

\* join(parent.rootPath, path) of Route call t
joinedRoot(t) == buildRootPath(<<hist[t].rootPath, hist[t].arg>>)

\* the request went through the parent of Route call t or directly through
\* its sub-router, and no wrapper answered it
ThroughOrDirect(t) ==
    /\ req.pc = "done"
    /\ req.entry \in {hist[t].router, hist[t].sub}
    /\ req.method = MethodGET
    /\ req.outcome # "blocked"

\* C7, as stated: the sub-router's root path is join(parent.rootPath, path); a
\* route it registers under P serves the requests to that root path + P that
\* go through the parent or directly through the sub-router, and does not
\* serve the requests to P
C7_RouteServedUnderPrefix ==
    \A t \in routeCalls :
        /\ muxes[subMux(t)].rootPath = joinedRoot(t)
        /\ \A k \in routesOf(t) :
               /\ ThroughOrDirect(t) /\ req.path = joinedRoot(t) \o PathX
                    => req.outcome = "served" /\ req.served = k
               /\ ThroughOrDirect(t) /\ req.path = PathX
                    => req.served # k

\* the not-found handler of the sub-router's registry m after call k of the
\* history: the parent's at the Route call t, or what was set on the
\* sub-router since
RECURSIVE notFoundSince(_, _, _)
notFoundSince(m, t, k) ==
    IF k <= t THEN hist[t].val
    ELSE IF hist[k].call = "SetNotFoundHandler" /\ hist[k].mux = m THEN hist[k].val
    ELSE notFoundSince(m, t, k - 1)

\* C8, as stated: a request that matches nothing in a sub-tree is answered by
\* the not-found handler configured on the parent
C8_ParentNotFoundHandler ==
    \A t \in routeCalls :
        EndedNotFound /\ req.mux = subMux(t) /\ muxes[hist[t].mux].notFoundHandler # "nil"
            => /\ req.outcome = "notfound"
               /\ req.w.body = muxes[hist[t].mux].notFoundHandler

\* C8, as the code has it: a request that matches nothing in a sub-tree is
\* answered by the not-found handler the parent had when Route was called,
\* unless one was set on the sub-router since; when the parent had none and
\* none was set, net/http's own 404 answers
C8_NotFoundHandlerAtRoute ==
    \A t \in routeCalls :
        /\ muxes[subMux(t)].notFoundHandler = notFoundSince(subMux(t), t, Len(hist))
        /\ EndedNotFound /\ req.mux = subMux(t)
             => IF notFoundSince(subMux(t), t, Len(hist)) = "nil"
                THEN req.outcome = "default404"
                ELSE /\ req.outcome = "notfound"
                     /\ req.w.body = notFoundSince(subMux(t), t, Len(hist))

\* C8: a sub-tree answered with the not-found handler its parent had at the
\* Route call, which the parent has replaced since
C8_Witness ==
    \E t \in routeCalls :
        /\ EndedNotFound
        /\ req.mux = subMux(t)
        /\ req.outcome = "notfound"
        /\ req.w.body = hist[t].val
        /\ muxes[hist[t].mux].notFoundHandler \notin {"nil", hist[t].val}

\* ------------------------------------------------------------------------
\* the trailing-slash redirect
\* ------------------------------------------------------------------------

\* net/http answered with its redirect to the request path + "/"
RedirectedToSlash ==
    /\ req.pc = "done"
    /\ req.outcome = "redirect"
    /\ req.w.location = req.path \o <<"/">>

\* C5: whatever the method, when net/http answers a request with its 301 to
\* the request path + "/", the caller gets 307 with that Location, and 307 is
\* recorded on the interceptor; in a sub-tree and at its mount point too
C5_RedirectIs307 ==
    RedirectedToSlash =>
        /\ req.w.status = StatusTemporaryRedirect
        /\ req.si.Status = StatusTemporaryRedirect
        /\ req.si.originalPath = req.path

\* C5: a POST for a pattern of a sub-tree, dispatched through the parent, was
\* redirected to the path with the slash
C5_Witness ==
    /\ RedirectedToSlash
    /\ req.method = MethodPOST
    /\ req.mux # routers[req.entry].mux
    /\ req.w.status = StatusTemporaryRedirect

\* ------------------------------------------------------------------------
\* the alias of a pattern
\* ------------------------------------------------------------------------

\* the calls that registered a pattern, and returned or panicked
registrations ==
    {k \in 1..Len(hist) : hist[k].call \in {"handle", "Any", "Mount"} /\ hist[k].alias = <<>>}

\* what call k left in the dispatcher
entriesOf(k) == {e \in muxes[hist[k].mux].entries : e.reg = k}

\* the patterns a registration of full adds: full and its one alias, if any
withAlias(full) ==
    {full} \cup (IF Contains(full, "-") THEN {ReplaceAll(full, "-", "_")}
                 ELSE IF Contains(full, "_") THEN {ReplaceAll(full, "_", "-")}
                 ELSE {})

\* C10, as stated: a registration whose full pattern the dispatcher took
\* returns with the full pattern and its one alias in the dispatcher, both
\* with the handler of the call
C10_RegisterAddsAlias ==
    \A k \in registrations :
        (\E e \in entriesOf(k) : e.pat = hist[k].pattern)
            => /\ ~hist[k].panic
               /\ {e.pat : e \in entriesOf(k)} = withAlias(hist[k].pattern)
               /\ \A e, f \in entriesOf(k) : e.handler = f.handler

\* ------------------------------------------------------------------------
\* the root path
\* ------------------------------------------------------------------------

\* the routes registered with handle while the root path was not empty
routesUnderRoot ==
    {k \in 1..Len(hist) : hist[k].call = "handle" /\ hist[k].rootPath # <<>>}

\* a request for path, dispatched through the router that registered route k,
\* has returned
AnsweredAt(k, path) ==
    /\ req.pc = "done"
    /\ routers[req.entry].mux = hist[k].mux
    /\ req.method = MethodGET
    /\ req.path = path

\* C11, as stated: a route registered as GET P while the root path is a
\* non-empty R is in the dispatcher as GET R + P, whatever SetBasePath and
\* AppendPath did since (only a route registered before with the same root
\* path makes the call fail); it serves the requests to R + P and not those
\* to P
C11_PrefixAtRegistration ==
    \A k \in routesUnderRoot :
        /\ hist[k].panic => \E j \in 1..(k - 1) : hist[j].pattern = hist[k].pattern
        /\ ~hist[k].panic
             => /\ {e.pat : e \in entriesOf(k)}
                    = withAlias(MethodGET \o <<" ">> \o hist[k].rootPath \o PathX)
                /\ AnsweredAt(k, hist[k].rootPath \o PathX)
                     => req.outcome = "served" /\ req.served = k
                /\ AnsweredAt(k, PathX) => req.served # k

\* ------------------------------------------------------------------------
\* Mount
\* ------------------------------------------------------------------------

\* the calls of Mount with a handler that is not a router, which returned
mountCalls ==
    {k \in 1..Len(hist) :
        hist[k].call = "Mount" /\ hist[k].fn.kind = "fn" /\ ~hist[k].panic}

\* a request whose path lies under the pattern of mount k has been answered
\* by the registry of the mount, no middleware having answered it itself
AnsweredUnder(k) ==
    /\ req.pc = "done"
    /\ req.mux = hist[k].mux
    /\ isPrefix(hist[k].rootPath \o hist[k].arg, req.path)
    /\ req.outcome # "blocked"

\* C12: a Mount that returned left one pattern in the dispatcher: no method,
\* the root path of the registry followed by the path with one "/" at its
\* end, the handler wrapped by the router's chain of that moment and then by
\* the chain of the call; a request of any method whose path lies under that
\* pattern runs that chain and then the mounted handler
C12_MountUnderPath ==
    \A k \in mountCalls :
        /\ \E p \in MountPaths : hist[k].arg = TrimSuffix(p, <<"/">>) \o <<"/">>
        /\ \E e \in entriesOf(k) :
               /\ entriesOf(k) = {e}
               /\ e.method = <<>>
               /\ e.host = <<>>
               /\ e.pat = hist[k].rootPath \o hist[k].arg
               /\ e.handler.layers = chainBefore(hist[k].router, k) \o hist[k].chain
               /\ e.handler.fn = hist[k].fn.fn
        /\ AnsweredUnder(k)
             => /\ req.outcome = "served"
                /\ req.served = k
                /\ traceIds(req.trace)
                     = chainBefore(hist[k].router, k) \o hist[k].chain \o <<hist[k].fn.fn>>

\* C12: a handler mounted with a chain of its own, on a router with a chain
\* and a root path, served a POST request for a path below the mount
C12_Witness ==
    \E k \in mountCalls :
        /\ AnsweredUnder(k)
        /\ req.served = k
        /\ req.method = MethodPOST
        /\ req.path = PathV \o PathS \o PathX
        /\ hist[k].rootPath = PathV
        /\ chainBefore(hist[k].router, k) # <<>>
        /\ hist[k].chain # <<>>

\* a root path as the data model wants it: empty, or starting with "/" and
\* not ending with "/"
Normalised(path) ==
    path = <<>> \/ (Head(path) = "/" /\ ~HasSuffix(path, <<"/">>))

\* C13, as stated: the root path of every registry is normalised after any
\* sequence of SetBasePath and AppendPath calls
C13_RootPathNormalised ==
    \A m \in 1..Len(muxes) : Normalised(muxes[m].rootPath)

\* ------------------------------------------------------------------------
\* join
\* ------------------------------------------------------------------------

isAppendPath(c) == c.call = "AppendPath"

\* the segments given to AppendPath so far, in order
appended == [i \in 1..Len(SelectSeq(hist, isAppendPath)) |-> SelectSeq(hist, isAppendPath)[i].arg]

\* C14, as stated: after AppendPath(s1), ..., AppendPath(sn) on a new router
\* the root path is join(s1, ..., sn), and join(join(a, b), c) is
\* join(a, b, c) for the first three segments a, b, c
C14_JoinIdempotent ==
    /\ muxes[1].rootPath = buildRootPath(appended)
    /\ Len(appended) >= 3
         => buildRootPath(<<buildRootPath(SubSeq(appended, 1, 2)), appended[3]>>)
              = buildRootPath(SubSeq(appended, 1, 3))

\* ------------------------------------------------------------------------
\* per-method routes and Any
\* ------------------------------------------------------------------------

\* the registrations that returned: those of handle, those of Any
handleCalls == {k \in 1..Len(hist) : hist[k].call = "handle" /\ ~hist[k].panic}

anyCalls == {k \in 1..Len(hist) : hist[k].call = "Any" /\ ~hist[k].panic}

\* the one entry registration k left in the dispatcher
entryOf(k) == CHOOSE e \in entriesOf(k) : TRUE

\* the request has been answered by the registry of registration k
AnsweredBy(k) == req.pc = "done" /\ req.mux = hist[k].mux

\* C15: a per-method registration leaves the pattern M + " " + path in the
\* dispatcher, with M as its method, and its handler answers the requests
\* for the path with method M and no request of another method (HEAD for a
\* GET route aside); an Any registration leaves the bare path, with no
\* method, and its handler answers the requests for the path under every
\* method
C15_MethodPattern ==
    /\ \A k \in handleCalls :
           /\ Cardinality(entriesOf(k)) = 1
           /\ entryOf(k).method \in RouterMethods
           /\ entryOf(k).pat = entryOf(k).method \o <<" ">> \o PathA
           /\ hist[k].arg = entryOf(k).pat
           /\ entryOf(k).handler.fn = hist[k].fn.fn
           /\ AnsweredBy(k) /\ req.path = PathA /\ req.method = entryOf(k).method
                => req.outcome = "served" /\ req.served = k
           /\ AnsweredBy(k) /\ req.served = k
                => \/ req.method = entryOf(k).method
                   \/ req.method = MethodHEAD /\ entryOf(k).method = MethodGET
    /\ \A k \in anyCalls :
           /\ Cardinality(entriesOf(k)) = 1
           /\ entryOf(k).method = <<>>
           /\ entryOf(k).pat = PathB
           /\ entryOf(k).handler.fn = hist[k].fn.fn
           /\ AnsweredBy(k) /\ req.path = PathB
                => req.outcome = "served" /\ req.served = k

\* C15: with a PUT and a POST route for one path and an Any route for the
\* other, the PUT route answered a PUT request
C15_Witness ==
    /\ \E k \in handleCalls : entryOf(k).method = MethodPOST
    /\ anyCalls # {}
    /\ \E k \in handleCalls :
           /\ AnsweredBy(k)
           /\ req.served = k
           /\ req.method = MethodPUT
           /\ entryOf(k).method = MethodPUT

\* ------------------------------------------------------------------------
\* requests that match no pattern
\* ------------------------------------------------------------------------

\* the dispatch of a request that matches no pattern of the registry it ended
\* in has returned, no global wrapper having answered the request itself
UnmatchedDone ==
    /\ req.pc = "done"
    /\ matchedPattern(req.mux) = <<>>
    /\ req.outcome # "blocked"

\* the not-found handler of the registry answered
AnsweredByNotFoundHandler ==
    /\ req.outcome = "notfound"
    /\ req.w.body = muxes[req.mux].notFoundHandler
    /\ req.w.status # 0

\* C16, as stated: a request that matches no pattern is answered by the
\* not-found handler when one is set and with status 404 otherwise
C16_UnmatchedIs404 ==
    UnmatchedDone =>
        IF muxes[req.mux].notFoundHandler # "nil" THEN AnsweredByNotFoundHandler
        ELSE req.w.status = StatusNotFound

\* the escaped path of the request, which the dispatcher resolves
Escaped == EscapedPath(req.path, req.rawPath)

\* the host under which the dispatcher looks for the patterns of other
\* methods
MethodsHost == IF req.method = MethodCONNECT THEN URLHost ELSE stripHostPort(req.host)

\* C16, as the code has it: the dispatch of a request that matches no
\* pattern never faults and always goes on until it has returned with a
\* response: that of the not-found handler when one is set, otherwise that
\* of the dispatcher, which is 404, or 405 when the path matches a pattern
\* registered for another method, or a 301 to the cleaned path when the
\* path is not clean (an empty, "." or ".." segment) and the method is not
\* CONNECT, or 400 when the request target is "*"
C16_UnmatchedAnswered ==
    /\ req.active => ~panicked
    /\ req.active /\ req.pc # "done"
         => ENABLED (ServeHTTP \/ NotFoundHandler \/ GlobalWrapper \/ ServeMuxServeHTTP
                       \/ Middleware \/ Handler \/ SubRouter)
    /\ UnmatchedDone =>
           IF muxes[req.mux].notFoundHandler # "nil" THEN AnsweredByNotFoundHandler
           ELSE IF req.requestURI = TargetStar
           THEN req.outcome = "badrequest" /\ req.w.status = StatusBadRequest
           ELSE IF req.method # MethodCONNECT /\ cleanPath(Escaped) # Escaped
           THEN /\ req.outcome = "redirect"
                /\ req.w.status = StatusMovedPermanently
                /\ req.w.location
                       = hexEscapeNonASCII(URLString(cleanPath(Escaped), req.rawQuery))
           ELSE IF matchingMethods(muxes[req.mux].entries, MethodsHost, Escaped)
           THEN req.outcome = "notallowed" /\ req.w.status = StatusMethodNotAllowed
           ELSE req.outcome = "default404" /\ req.w.status = StatusNotFound

\* C16: without a not-found handler, a POST request for the path of a GET
\* route was answered 405 after the global wrapper ran
C16_Witness ==
    /\ UnmatchedDone
    /\ muxes[req.mux].notFoundHandler = "nil"
    /\ req.method = MethodPOST
    /\ req.path = PathA
    /\ req.w.status = StatusMethodNotAllowed
    /\ globalsRun # {}

\* ------------------------------------------------------------------------
\* the execution order below a sub-router
\* ------------------------------------------------------------------------

\* the Mount that ended Route call t
mountOf(t) ==
    CHOOSE k \in 1..Len(hist) :
        hist[k].call = "Mount" /\ hist[k].fn.kind = "router" /\ hist[k].fn.sub = hist[t].sub

\* a route of the sub-router of Route call t served a request that came
\* through the parent
ServedBelow(t) ==
    /\ ServedByRoute
    /\ req.served \in routesOf(t)
    /\ req.entry = hist[t].router

\* C17: a request served by a route of the sub-router Route made ran, in this
\* order, the parent's global wrapper, the chain the parent had when Route
\* mounted the sub-router, the sub-router's global wrapper, the chain the
\* sub-router had when the route was registered, the per-route middleware and
\* the handler; the sub-router's own chain is what Route was given and what
\* was used on the sub-router, without the parent's
C17_SubRouteOrder ==
    \A t \in routeCalls :
        /\ routers[hist[t].sub].chain
             = hist[t].chain \o usedBetween(hist[t].sub, t, Len(hist) + 1)
        /\ ServedBelow(t)
             => traceIds(req.trace)
                  = globalOf(hist[t].mux)
                      \o chainBefore(hist[t].router, mountOf(t))
                      \o globalOf(subMux(t))
                      \o chainBefore(hist[t].sub, req.served)
                      \o hist[req.served].chain
                      \o <<hist[req.served].fn.fn>>

\* C17: a route registered inside the Route call served a request; the
\* parent was given a middleware after Route returned, which did not run, and
\* the sub-router has a global wrapper, which did
C17_Witness ==
    \E t \in routeCalls :
        /\ ServedBelow(t)
        /\ req.served < mountOf(t)
        /\ \E j \in usesAfter(hist[t].router, mountOf(t)) :
               \A n \in 1..Len(req.trace) : req.trace[n].id # hist[j].chain[1]
        /\ globalOf(subMux(t)) # <<>>
        /\ traceIds(req.trace) = <<"m1", "g2", "s1", "r1", "h1">>

\* ------------------------------------------------------------------------
\* the mount pattern of a sub-router
\* ------------------------------------------------------------------------

\* the Mount calls that ended Route call t and returned
mountsOf(t) ==
    {k \in 1..Len(hist) :
        /\ hist[k].call = "Mount"
        /\ hist[k].fn.kind = "router"
        /\ hist[k].fn.sub = hist[t].sub
        /\ ~hist[k].panic}

\* the path of a pattern: what follows the method token, if there is one
patternPath(pattern) ==
    IF IndexAny(pattern, Blank) > 0
    THEN TrimLeft(SubSeq(pattern, IndexAny(pattern, Blank), Len(pattern)), Blank)
    ELSE pattern

\* C18, as stated: the pattern under which Route mounted the sub-router on
\* the parent is a prefix of the path of every pattern registered in the
\* sub-router, and a request for such a path that goes through the parent
\* is served by the route
C18_MountPatternIsPrefix ==
    \A t \in routeCalls : \A n \in mountsOf(t) : \A k \in routesOf(t) :
        ~hist[k].panic
            => /\ isPrefix(joinedRoot(t), patternPath(hist[k].pattern))
               /\ isPrefix(hist[n].pattern, patternPath(hist[k].pattern))
               /\ (/\ req.pc = "done"
                   /\ req.entry = hist[t].router
                   /\ req.method = MethodGET
                   /\ req.path = patternPath(hist[k].pattern)
                   /\ req.outcome # "blocked")
                    => req.served = k

\* ------------------------------------------------------------------------
\* the separator of method and path
\* ------------------------------------------------------------------------

\* the registrations of a pattern with a method token that returned
methodPatterns ==
    {k \in 1..Len(hist) :
        hist[k].call = "Any" /\ ~hist[k].panic /\ IndexAny(hist[k].arg, Blank) > 0}

\* the method token of a pattern that has one
patternMethod(pattern) == SubSeq(pattern, 1, IndexAny(pattern, Blank) - 1)

\* the method token of the pattern given to registration k, one space, the
\* root path of the moment and the path of the pattern
singleSpaced(k) ==
    patternMethod(hist[k].arg) \o <<" ">> \o hist[k].rootPath \o patternPath(hist[k].arg)

\* C19, as stated: whatever the root path, the dispatcher holds the method
\* token, one space and the path
C19_SingleSpace ==
    \A k \in methodPatterns : {e.pat : e \in entriesOf(k)} = {singleSpaced(k)}

\* C19, as the code has it: under a non-empty root path the dispatcher
\* holds the method token unchanged, one space, the root path and the path,
\* whatever separated method and path in the input; under the empty root
\* path it holds the input unchanged; either way the route serves the
\* requests of that method for the path
C19_SingleSpaceUnderRoot ==
    \A k \in methodPatterns :
        /\ hist[k].rootPath # <<>> => {e.pat : e \in entriesOf(k)} = {singleSpaced(k)}
        /\ hist[k].rootPath = <<>> => {e.pat : e \in entriesOf(k)} = {hist[k].arg}
        /\ \A e \in entriesOf(k) : e.method = patternMethod(hist[k].arg)
        /\ (/\ AnsweredBy(k)
            /\ req.method = patternMethod(hist[k].arg)
            /\ req.path = hist[k].rootPath \o patternPath(hist[k].arg))
             => req.served = k

\* C19: a pattern given with a tab under a non-empty root path is in the
\* dispatcher with one space, and served a request
C19_Witness ==
    \E k \in methodPatterns :
        /\ hist[k].arg = MethodPOST \o <<"\t">> \o PathX
        /\ hist[k].rootPath = PathV
        /\ \E e \in entriesOf(k) : e.pat = MethodPOST \o <<" ">> \o PathV \o PathX
        /\ AnsweredBy(k)
        /\ req.served = k

\* ------------------------------------------------------------------------
\* the global wrapper
\* ------------------------------------------------------------------------

\* the calls of SetHandler on registry m
setHandlerCalls(m) == {k \in 1..Len(hist) : hist[k].call = "SetHandler" /\ hist[k].mux = m}

\* the global wrapper most recently set on registry m, "nil" if none was
lastSetHandler(m) ==
    IF setHandlerCalls(m) = {} THEN "nil"
    ELSE hist[CHOOSE k \in setHandlerCalls(m) : \A j \in setHandlerCalls(m) : j <= k].val

isGlobal(ev) == ev.kind = "global"

\* C20: a request that matched a pattern of a registry ran, before anything
\* else, the global wrapper most recently set on the registry, and no other;
\* it ran none if none was set or the last call removed it
C20_GlobalAtDispatch ==
    req.pc = "done" /\ matchedPattern(req.mux) # <<>>
        => /\ traceIds(SelectSeq(req.trace, isGlobal))
                = (IF lastSetHandler(req.mux) = "nil" THEN <<>>
                   ELSE <<lastSetHandler(req.mux)>>)
           /\ lastSetHandler(req.mux) # "nil" => isGlobal(req.trace[1])

\* C20: a route registered before any SetHandler call served a request after
\* the global wrapper was set twice; the second wrapper ran, the first did not
C20_Witness ==
    /\ ServedByRoute
    /\ \E k \in setHandlerCalls(req.mux), j \in setHandlerCalls(req.mux) :
           /\ req.served < k
           /\ k < j
           /\ hist[k].val = "g1"
           /\ hist[j].val = "g2"
    /\ traceIds(req.trace) = <<"g2", "h1">>

\* ------------------------------------------------------------------------
\* what a sub-router takes from its parent
\* ------------------------------------------------------------------------

\* the calls of SetNotFoundHandler on registry m
setNotFoundCalls(m) ==
    {k \in 1..Len(hist) : hist[k].call = "SetNotFoundHandler" /\ hist[k].mux = m}

\* the calls on the parent of Route call t after its Mount: Route has returned
afterRoute(t, calls) == {k \in calls : \E n \in mountsOf(t) : k > n}

\* C21: the not-found handler of the sub-router Route made is the one the
\* parent had at the Route call, or what was set on the sub-router itself
\* since: a SetNotFoundHandler on the parent changes only the parent's, one
\* on the sub-router only the sub-router's; the global wrapper of the
\* sub-router is what was set on the sub-router, never the parent's
C21_NotFoundFixedAtRoute ==
    \A t \in routeCalls :
        /\ setNotFoundCalls(subMux(t)) = {}
             => muxes[subMux(t)].notFoundHandler = hist[t].val
        /\ setNotFoundCalls(subMux(t)) # {}
             => muxes[subMux(t)].notFoundHandler
                  = hist[CHOOSE k \in setNotFoundCalls(subMux(t)) :
                             \A j \in setNotFoundCalls(subMux(t)) : j <= k].val
        /\ \A k \in setNotFoundCalls(hist[t].mux) :
               (\A j \in setNotFoundCalls(hist[t].mux) : j <= k)
                   => muxes[hist[t].mux].notFoundHandler = hist[k].val
        /\ muxes[subMux(t)].httpHandler = lastSetHandler(subMux(t))

\* C21: the parent had a not-found handler when Route was called and got
\* another after Route returned; the sub-router has the first handler, the
\* parent the second, and the sub-router has no global wrapper
C21_Witness ==
    \E t \in routeCalls :
        /\ hist[t].val # "nil"
        /\ \E k \in afterRoute(t, setNotFoundCalls(hist[t].mux)) : hist[k].val # hist[t].val
        /\ muxes[subMux(t)].notFoundHandler = hist[t].val
        /\ muxes[hist[t].mux].notFoundHandler # hist[t].val
        /\ muxes[subMux(t)].httpHandler = "nil"

\* ------------------------------------------------------------------------
\* the status write of the interceptor
\* ------------------------------------------------------------------------

\* a status was written through the interceptor of the request
StatusWritten == req.pc = "done" /\ req.si.set /\ req.code # 0

\* the write was of 301 with the Location header at the original path + "/"
SlashRedirectWritten ==
    /\ req.code = StatusMovedPermanently
    /\ req.w.location = req.si.originalPath \o <<"/">>

\* C22: a status write through the interceptor commits 307 and records 307
\* on the interceptor exactly when the code is 301 and the Location header
\* is the original request path + "/"; every other write commits the code
\* as it is and records nothing
C22_RewriteIffSlashRedirect ==
    StatusWritten =>
        /\ (req.w.status = StatusTemporaryRedirect /\ req.si.Status = StatusTemporaryRedirect)
               <=> SlashRedirectWritten
        /\ ~SlashRedirectWritten => req.w.status = req.code /\ req.si.Status = 0
        /\ req.si.originalPath = req.path

\* C22: the handler of the route for /d wrote 301 with the Location /d/,
\* and 307 was committed and recorded
C22_Witness ==
    /\ StatusWritten
    /\ req.outcome = "served"
    /\ req.path = PathD
    /\ SlashRedirectWritten
    /\ req.w.status = StatusTemporaryRedirect
    /\ req.si.Status = StatusTemporaryRedirect

\* ------------------------------------------------------------------------
\* the prefix of a pattern
\* ------------------------------------------------------------------------

\* the patterns handed to the registry as they are, which it took
patternCalls == {k \in 1..Len(hist) : hist[k].call = "Any" /\ ~hist[k].panic}

\* the placeholders of a pattern: its segments that are wildcards
placeholders(segs) ==
    [i \in 1..Len(segs) |-> IF segs[i].wild \/ segs[i].multi THEN segs[i] ELSE <<>>]

\* C23: the dispatcher holds the pattern unchanged when the root path was
\* empty; under a root path R it holds the text before the first space or
\* tab, one space, R and the rest without its leading spaces and tabs when
\* the pattern has a space or tab, and R followed by the pattern when it has
\* none; the placeholders of the pattern are those of what the dispatcher
\* holds, after the segments of R; the dispatcher refuses such a pattern
\* only when the same pattern was registered before under the same root path
C23_PatternPrefixing ==
    /\ \A k \in 1..Len(hist) :
           hist[k].call = "Any" /\ hist[k].panic
               => \E j \in 1..(k - 1) :
                      hist[j].arg = hist[k].arg /\ hist[j].rootPath = hist[k].rootPath
    /\ \A k \in patternCalls : \E e \in entriesOf(k) :
        /\ entriesOf(k) = {e}
        /\ hist[k].rootPath = <<>> => e.pat = hist[k].arg
        /\ hist[k].rootPath # <<>> /\ IndexAny(hist[k].arg, Blank) > 0
             => e.pat = patternMethod(hist[k].arg) \o <<" ">> \o hist[k].rootPath
                          \o patternPath(hist[k].arg)
        /\ hist[k].rootPath # <<>> /\ IndexAny(hist[k].arg, Blank) = 0
             => e.pat = hist[k].rootPath \o hist[k].arg
        /\ \E n \in 0..1 :
               /\ n = (IF hist[k].rootPath = <<>> THEN 0 ELSE 1)
               /\ Len(e.segs) = n + Len(parsePattern(hist[k].arg).segs)
               /\ \A i \in 1..Len(parsePattern(hist[k].arg).segs) :
                      placeholders(e.segs)[n + i]
                          = placeholders(parsePattern(hist[k].arg).segs)[i]

\* C23: the pattern POST, a tab and /f/{p...} was registered under the root
\* path /v and its route served a POST for /v/f/a/b
C23_Witness ==
    \E k \in patternCalls :
        /\ hist[k].arg = MethodPOST \o <<"\t">> \o PathFilesMulti
        /\ hist[k].rootPath = PathV
        /\ AnsweredBy(k)
        /\ req.served = k
        /\ req.path = PathV \o <<"/", "f", "/", "a", "/", "b">>

\* ------------------------------------------------------------------------
\* the contract of join
\* ------------------------------------------------------------------------

\* a segment without one leading and one trailing "/"
stripped(seg) ==
    SubSeq(seg, IF Head(seg) = "/" THEN 2 ELSE 1,
                IF seg[Len(seg)] = "/" /\ Len(seg) > 1 THEN Len(seg) - 1 ELSE Len(seg))

\* "/" + stripped segment for every segment but "" and "/", in order
RECURSIVE joined(_)
joined(segs) ==
    IF segs = <<>> THEN <<>>
    ELSE IF Head(segs) \in {<<>>, <<"/">>} THEN joined(Tail(segs))
    ELSE <<"/">> \o stripped(Head(segs)) \o joined(Tail(segs))

\* a "/" that is followed by another or by nothing
emptyComponent(path) ==
    \E i \in 1..Len(path) : path[i] = "/" /\ (i = Len(path) \/ path[i + 1] = "/")

\* the test's segments: a name with or without a "/" before and after it
plainSegments == {<<"x">>, <<"/", "x">>, <<"x", "/">>, <<"/", "x", "/">>}

\* what the contract says of join on the segments segs, but for the empty
\* path components
joinContract(segs) ==
    /\ buildRootPath(segs) = joined(segs)
    /\ (\A i \in 1..Len(segs) : segs[i] \in {<<>>, <<"/">>}) => buildRootPath(segs) = <<>>
    /\ Len(segs) = 3 /\ (\A i \in 1..3 : segs[i] \in plainSegments)
         => buildRootPath(segs) = <<"/", "x", "/", "x", "/", "x">>
    /\ Len(segs) = 1 => muxes[1].rootPath = buildRootPath(segs)

\* C24, as stated: join is "/" + stripped segment for every segment that is
\* neither empty nor "/", in order, and produces no empty path component
C24_NoEmptyComponent ==
    joinContract(appended) /\ ~emptyComponent(buildRootPath(appended))

\* ------------------------------------------------------------------------
\* one interceptor for one request
\* ------------------------------------------------------------------------

\* the request is inside the registry of a sub-router, which it reached
\* through the registry of the router it was given to
InSubRegistry == req.active /\ req.mux # routers[req.entry].mux

\* C25: once a registry has taken the request, one interceptor wraps the
\* response, whatever the number of registries the request went through
\* since, and its original path is the path of the request
C25_OneInterceptor ==
    req.active /\ req.pc # "mux"
        => /\ req.si.set
           /\ req.si.wraps = 1
           /\ req.si.originalPath = req.path

\* C25: a route of a sub-router served a request that went through the
\* middleware of the parent and the global wrapper of the sub-router
C25_Witness ==
    /\ InSubRegistry
    /\ ServedByRoute
    /\ Len(req.trace) >= 3
    /\ \E n \in globalsRun : req.trace[n].mux = req.mux
    /\ req.si.wraps = 1

\* ------------------------------------------------------------------------
\* requests in flight together
\* ------------------------------------------------------------------------

\* the requests in flight
inFlight == {req} \cup {parked[i] : i \in DOMAIN parked}

\* the response of request q is what q's own handler wrote through q's own
\* interceptor: the interceptor remembers q's path, and it rewrote the
\* status exactly if q's handler redirected q's path to the same path + "/"
OwnInterceptor(q) ==
    /\ q.si.set => q.si.originalPath = q.path
    /\ q.pc = "done" =>
          LET slash == /\ q.code = StatusMovedPermanently
                       /\ q.w.location = q.path \o <<"/">>
          IN  /\ q.w.status = IF slash THEN StatusTemporaryRedirect ELSE q.code
              /\ q.si.Status = IF slash THEN StatusTemporaryRedirect ELSE 0

\* a step of a dispatch: a request is in flight before or after it
Dispatching == req.active \/ req'.active \/ parked # <<>>

\* every request in flight answers through an interceptor of its own
OwnInterceptors == \A q \in inFlight : q.active => OwnInterceptor(q)

\* C26: a step of a dispatch leaves the routers (their chains) and the
\* registries (patterns, root path, global wrapper, not-found handler) as
\* they are, and changes no request but the one that takes the step; and
\* every request in flight answers through an interceptor of its own
C26_DispatchWritesOwnRequest ==
    [][ /\ Dispatching => /\ routers' = routers
                          /\ muxes' = muxes
                          /\ \A i \in DOMAIN parked' :
                                parked'[i] = req \/ parked'[i] \in {parked[j] : j \in DOMAIN parked}
        /\ OwnInterceptors' ]_vars

\* C26: two requests were in flight together; the one for /d was redirected
\* to /d/ and its status rewritten, the one for /x was served with 200
C26_Witness ==
    /\ Len(parked) = 1
    /\ parked[1].pc = "done" /\ req.pc = "done"
    /\ parked[1].path = PathD /\ parked[1].w.status = StatusTemporaryRedirect
    /\ req.path = PathX /\ req.w.status = StatusOK
    /\ req.si # parked[1].si

\* ------------------------------------------------------------------------
\* the group router and the parent's registry
\* ------------------------------------------------------------------------

\* the calls of one method made on the routers rs
callsOn(rs, call) == {k \in 1..Len(hist) : hist[k].call = call /\ hist[k].router \in rs}

\* what the last of these calls was given, "nil" if there was none
lastGiven(ks) ==
    IF ks = {} THEN "nil" ELSE hist[CHOOSE k \in ks : \A j \in ks : j <= k].val

\* the root path the SetBasePath and AppendPath calls of a history leave
RECURSIVE rootAfter(_)
rootAfter(calls) ==
    IF calls = <<>> THEN <<>>
    ELSE LET c == calls[Len(calls)]
             before == rootAfter(SubSeq(calls, 1, Len(calls) - 1))
         IN  IF c.call = "SetBasePath" THEN c.arg ELSE buildRootPath(<<before, c.arg>>)

\* the SetBasePath and AppendPath calls made on the routers rs before call k
rootCalls(rs, k) ==
    SelectSeq(SubSeq(hist, 1, k - 1),
              LAMBDA c : c.call \in {"SetBasePath", "AppendPath"} /\ c.router \in rs)

\* a GET request for path came through router r and no wrapper answered it
CameThrough(r, path) ==
    /\ req.pc = "done"
    /\ req.entry = r
    /\ req.method = MethodGET
    /\ req.path = path
    /\ req.outcome # "blocked"

\* C27: after Group, the global wrapper, the not-found handler and the root
\* path of the parent's registry are what the calls on the parent and on the
\* group router left, taken together in their order, and a route registered
\* through the group router got the root path of that moment and serves the
\* requests that come through the parent for that root path + its path
C27_GroupSharesRegistry ==
    \A t \in groupCalls :
        LET both == {hist[t].router, hist[t].sub}
            m == routers[hist[t].router].mux
        IN  /\ muxes[m].httpHandler = lastGiven(callsOn(both, "SetHandler"))
            /\ muxes[m].notFoundHandler = lastGiven(callsOn(both, "SetNotFoundHandler"))
            /\ muxes[m].rootPath = rootAfter(rootCalls(both, Len(hist) + 1))
            /\ \A k \in handleCalls :
                   hist[k].router = hist[t].sub =>
                       /\ hist[k].rootPath = rootAfter(rootCalls(both, k))
                       /\ CameThrough(hist[t].router, hist[k].rootPath \o PathX)
                              => ServedByRoute /\ req.served = k

\* C27: the group router set the root path /v, registered a route and set a
\* global wrapper; a request for /v/x through the parent ran that wrapper
\* and was served by the route
C27_Witness ==
    /\ groupCalls # {}
    /\ ServedByRoute
    /\ req.entry = 1
    /\ hist[req.served].router = 2
    /\ req.path = PathV \o PathX
    /\ traceIds(req.trace) = <<"g2", "h2">>

\* ------------------------------------------------------------------------
\* the two spellings registered by two calls
\* ------------------------------------------------------------------------

\* call k2 registers, on the registry of the earlier call k1 that returned,
\* the other spelling of k1's full pattern
OtherSpelling(k1, k2) ==
    /\ k1 < k2
    /\ hist[k1].mux = hist[k2].mux
    /\ ~hist[k1].panic
    /\ hist[k2].pattern # hist[k1].pattern
    /\ hist[k2].pattern \in withAlias(hist[k1].pattern)

\* every spelling of k's full pattern is in the dispatcher with k's handler
ResolvesTo(spellings, k) ==
    \A s \in spellings :
        \E e \in muxes[hist[k].mux].entries :
            e.pat = s /\ e.reg = k /\ e.handler.fn = hist[k].fn.fn

\* C28, as stated: the later call returns, and both spellings have its
\* handler afterwards
C28_LastRegistrationWins ==
    \A k1, k2 \in registrations :
        OtherSpelling(k1, k2)
            => ~hist[k2].panic /\ ResolvesTo(withAlias(hist[k1].pattern), k2)

\* C28: the later call panics in the dispatcher, where its pattern is
\* registered already, and leaves nothing; both spellings keep the handler
\* of the first call
C28_FirstRegistrationStays ==
    \A k1, k2 \in registrations :
        OtherSpelling(k1, k2)
            => /\ hist[k2].panic
               /\ entriesOf(k2) = {}
               /\ ResolvesTo(withAlias(hist[k1].pattern), k1)

\* C28: /f-b was registered with h1 and afterwards /f_b with h2
C28_Witness ==
    \E k1, k2 \in registrations :
        /\ OtherSpelling(k1, k2)
        /\ hist[k1].call = "handle" /\ hist[k2].call = "handle"
        /\ hist[k1].pattern = MethodGET \o <<" ">> \o PathFooHyphen
        /\ hist[k2].pattern = MethodGET \o <<" ">> \o PathFooUnderscore
        /\ hist[k1].fn.fn = "h1" /\ hist[k2].fn.fn = "h2"

\* ------------------------------------------------------------------------
\* Hijack, Flush and Push on the interceptor
\* ------------------------------------------------------------------------

\* the interface a call needs
interfaceOf(call) ==
    IF call = "Hijack" THEN "Hijacker" ELSE IF call = "Flush" THEN "Flusher" ELSE "Pusher"

\* what a call returns when the underlying response lacks the interface
unsupported(call) ==
    IF call = "Hijack" THEN Returned("nil", ErrNotSupported)
    ELSE IF call = "Flush" THEN Returned("", "")
    ELSE Returned("", ErrNotSupported)

\* the response and the interceptor are as ServeHTTP left them: nothing was
\* written and nothing rewritten
Untouched(q) ==
    /\ q.w.status = 0 /\ q.w.location = <<>> /\ q.w.body = ""
    /\ q.si = [set |-> TRUE, originalPath |-> q.path, Status |-> 0, wraps |-> 1]

\* C29: the underlying response received, in order, exactly the handler's
\* calls whose interface it implements, each with the handler's arguments,
\* and each returned to the handler what the underlying response returned;
\* a call whose interface it lacks returned the not-supported error (Flush:
\* nothing); and until the handler writes, response and interceptor are
\* untouched
C29_CapabilityPassthrough ==
    req.active =>
        /\ req.w.calls = SelectSeq(req.calls, LAMBDA c : interfaceOf(c.call) \in req.w.caps)
        /\ \A i \in DOMAIN req.calls :
               interfaceOf(req.calls[i].call) \notin req.w.caps
                   => req.calls[i].ret = unsupported(req.calls[i].call)
        /\ req.calls # <<>> /\ req.pc = "chain" => Untouched(req)

\* C29: on a response that implements Pusher only, the handler's Hijack got
\* the not-supported error and its Push was forwarded and returned the
\* error of the underlying Push
C29_Witness ==
    /\ req.active
    /\ req.w.caps = {"Pusher"}
    /\ Len(req.calls) = 2
    /\ req.calls[1].call = "Hijack" /\ req.calls[1].ret.err = ErrNotSupported
    /\ req.calls[2].call = "Push" /\ req.calls[2].ret.err = "ErrPush"
    /\ Len(req.w.calls) = 1

====
